---- MODULE Spec2Model ----
(***************************************************************************)
(* A model of the aare verification core: the ontology provider            *)
(* (handlers/ontology_loader.py), the extraction / derivation pipeline     *)
(* (aare_core/llm_parser.py) and the request handler                       *)
(* (aare_core/server.py).                                                  *)
(*                                                                         *)
(* Three specifications share the variables below:                         *)
(*   Spec       - one request through LLMParser.parse and the verifier     *)
(*   SpecLoader - a sequence of requests through OntologyLoader.load       *)
(*   SpecCache  - concurrent calls of LLMParser._get_compiled_pattern      *)
(***************************************************************************)
EXTENDS Integers, Sequences, FiniteSets, TLC

VARIABLES
    \* ---- Spec: one request -------------------------------------------
    pc,             \* position of the request in parse / verify
    ontology,       \* the ontology document handed to parse
    textId,         \* index of the request's text in Texts
    extracted,      \* parse's `extracted` dict, in insertion order
    idx,            \* position of the first-pass loop / of the pass loop
    remaining,      \* _calculate_computed_fields' `remaining` (names, in order)
    iteration,      \* _calculate_computed_fields' `iteration`
    computed_this_pass,
    violations,     \* the verifier's violations list (constraint ids)
    evalLog,        \* history: one record per evaluated computed field
    phases,         \* history: the phases of the request, in order
    include_confidence, \* parse's argument of that name
    confidence_scores,  \* parse's `confidence_scores` dict
    call,           \* how many times the request has been sent so far
    first,          \* history: what the first call of the request returned
    given,          \* history: the ontology document as the loader handed it over
    \* ---- SpecFormula: one call of a pure function --------------------
    call_formula,   \* the formula handed to _evaluate_formula
    call_result,    \* what the call returned
    \* ---- SpecLoader --------------------------------------------------
    files,          \* the ontology directory: name -> state of <name>.json
    lru,            \* lru_cache of OntologyLoader.load, most recent first
    resolved,       \* history: how often each name was resolved
    recency,        \* history: every name loaded so far, most recent first
    lastCall,       \* history: the last request and what became of it
    nloads,         \* number of load calls so far
    \* ---- SpecCache ---------------------------------------------------
    compiled_patterns,  \* the module-level dict _compiled_patterns
    thr,            \* per thread: pc and locals of _get_compiled_pattern
    ncompiled       \* number of re.compile calls that returned so far

parseVars == <<pc, ontology, textId, extracted, idx, remaining, iteration,
               computed_this_pass, violations, evalLog, phases, include_confidence,
               confidence_scores, call, first, given, call_formula, call_result>>
requestVars == <<textId, include_confidence, call, first, given, call_formula,
                 call_result>>
loaderVars == <<files, lru, resolved, recency, lastCall, nloads>>
cacheVars == <<compiled_patterns, thr, ncompiled>>
vars == <<parseVars, loaderVars, cacheVars>>

(* ------------------------------ tables ---------------------------------- *)
\* the characters of the texts, in code point order (for str comparison)
Alphabet ==
    <<" ", "$", "%", ",", "-", ".", "/", "0", "1", "2", "3", "4", "5", "6",
      "7", "8", "9", ":", "A", "C", "D", "F", "I", "K", "O", "S", "T", "a",
      "b", "c", "d", "e", "f", "g", "i", "k", "l", "m", "n", "o", "p", "r",
      "s", "t", "u", "v", "w", "y">>

\* str.lower() on the characters it changes
LowerOf ==
    ("A" :> "a") @@ ("C" :> "c") @@ ("D" :> "d") @@ ("F" :> "f") @@ ("I" :> "i") @@
    ("K" :> "k") @@ ("O" :> "o") @@ ("S" :> "s") @@ ("T" :> "t")

\* the request texts:
\*   1  DTI: 35, FICO 720, approved
\*   2  , fees
\*   3  Score 3.5 on 2024-12-25
\*   4  $5k fees, $200k loan
\*   5  Approval guaranteed
\*   6  not approved
\*   7  approved, no issues
\*   8  $5K fees, $300 mortgage
Texts == <<
    <<"D", "T", "I", ":", " ", "3", "5", ",", " ", "F", "I", "C", "O", " ", "7", "2", "0", ",", " ", "a", "p", "p", "r", "o", "v", "e", "d">>,
    <<",", " ", "f", "e", "e", "s">>,
    <<"S", "c", "o", "r", "e", " ", "3", ".", "5", " ", "o", "n", " ", "2", "0", "2", "4", "-", "1", "2", "-", "2", "5">>,
    <<"$", "5", "k", " ", "f", "e", "e", "s", ",", " ", "$", "2", "0", "0", "k", " ", "l", "o", "a", "n">>,
    <<"A", "p", "p", "r", "o", "v", "a", "l", " ", "g", "u", "a", "r", "a", "n", "t", "e", "e", "d">>,
    <<"n", "o", "t", " ", "a", "p", "p", "r", "o", "v", "e", "d">>,
    <<"a", "p", "p", "r", "o", "v", "e", "d", ",", " ", "n", "o", " ", "i", "s", "s", "u", "e", "s">>,
    <<"$", "5", "K", " ", "f", "e", "e", "s", ",", " ", "$", "3", "0", "0", " ", "m", "o", "r", "t", "g", "a", "g", "e">>
>>

\* the keywords and negation words of the extractors
S_approved == <<"a", "p", "p", "r", "o", "v", "e", "d">>
S_approve == <<"a", "p", "p", "r", "o", "v", "e">>
S_fees == <<"f", "e", "e", "s">>
S_loan == <<"l", "o", "a", "n">>
S_score == <<"s", "c", "o", "r", "e">>
S_on == <<"o", "n">>
S_not == <<"n", "o", "t">>
S_no == <<"n", "o">>
S_guaranteed == <<"g", "u", "a", "r", "a", "n", "t", "e", "e", "d">>
S_dti == <<"d", "t", "i">>
S_fico == <<"f", "i", "c", "o">>
S_100_ == <<"1", "0", "0", "%">>
S_definitely == <<"d", "e", "f", "i", "n", "i", "t", "e", "l", "y">>
S_counseling == <<"c", "o", "u", "n", "s", "e", "l", "i", "n", "g">>
S_escrow_waived == <<"e", "s", "c", "r", "o", "w", " ", "w", "a", "i", "v", "e", "d">>
S_waive_escrow == <<"w", "a", "i", "v", "e", " ", "e", "s", "c", "r", "o", "w">>
S_skip_escrow == <<"s", "k", "i", "p", " ", "e", "s", "c", "r", "o", "w">>
S_denied == <<"d", "e", "n", "i", "e", "d">>
S_cannot_approve == <<"c", "a", "n", "n", "o", "t", " ", "a", "p", "p", "r", "o", "v", "e">>
S_credit == <<"c", "r", "e", "d", "i", "t">>
S_income == <<"i", "n", "c", "o", "m", "e">>
S_debt == <<"d", "e", "b", "t">>
S_computed == <<"c", "o", "m", "p", "u", "t", "e", "d">>
S_True == <<"T", "r", "u", "e">>
S_False == <<"F", "a", "l", "s", "e">>

\* the regex sources of the extractors, DATE_PATTERNS and DATETIME_PATTERNS
P_DTI == "dti[:\\s~]*(\\d+(?:\\.\\d+)?)"
P_FICO == "(?:fico|credit score)[:\\s]*(\\d{3})"
P_FEES == "\\$?([\\d,]+)k?\\s*(?:fees?|costs?)"
P_LOAN == "\\$?([\\d,]+)k?\\s*(?:loan|mortgage)"
P_SCORE == "score[:\\s]*([\\d.]+)"
P_ON == "on (\\S+)"
P_AMOUNTS == "\\$(\\d+)k"
P_BAD == "(\\d+"
P_DATE1 == "\\b(\\d{4})[-/](\\d{1,2})[-/](\\d{1,2})\\b"
P_DATE2 == "\\b(\\d{1,2})[-/](\\d{1,2})[-/](\\d{4})\\b"
P_DATE3 == "\\b(\\d{1,2})[-/](\\d{1,2})[-/](\\d{2})\\b"
P_DATE4 == "\\b((?:Jan(?:uary)?|Feb(?:ruary)?|Mar(?:ch)?|Apr(?:il)?|May|Jun(?:e)?|Jul(?:y)?|Aug(?:ust)?|Sep(?:tember)?|Oct(?:ober)?|Nov(?:ember)?|Dec(?:ember)?)\\s+\\d{1,2},?\\s+\\d{4})\\b"
P_DATE5 == "\\b(\\d{1,2}\\s+(?:Jan(?:uary)?|Feb(?:ruary)?|Mar(?:ch)?|Apr(?:il)?|May|Jun(?:e)?|Jul(?:y)?|Aug(?:ust)?|Sep(?:tember)?|Oct(?:ober)?|Nov(?:ember)?|Dec(?:ember)?)\\s+\\d{4})\\b"
P_DATETIME1 == "\\b(\\d{4}[-/]\\d{1,2}[-/]\\d{1,2}[T\\s]\\d{1,2}:\\d{2}(?::\\d{2})?(?:\\s*(?:AM|PM|am|pm))?)\\b"
P_DATETIME2 == "\\b(\\d{1,2}[-/]\\d{1,2}[-/]\\d{4}\\s+\\d{1,2}:\\d{2}(?::\\d{2})?\\s*(?:AM|PM|am|pm)?)\\b"

\* the sources re.compile(pattern, re.IGNORECASE) accepts
ValidPatterns ==
    {P_DTI, P_FICO, P_FEES, P_LOAN, P_SCORE, P_ON, P_AMOUNTS, P_DATE1,
     P_DATE2, P_DATE3, P_DATE4, P_DATE5, P_DATETIME1, P_DATETIME2}

\* every string a compiled pattern is applied to: the texts, their
\* lower-case forms and the keyword windows of _extract_date
Subjects == <<
    <<"D", "T", "I", ":", " ", "3", "5", ",", " ", "F", "I", "C", "O", " ", "7", "2", "0", ",", " ", "a", "p", "p", "r", "o", "v", "e", "d">>,
    <<"d", "t", "i", ":", " ", "3", "5", ",", " ", "f", "i", "c", "o", " ", "7", "2", "0", ",", " ", "a", "p", "p", "r", "o", "v", "e", "d">>,
    <<",", " ", "f", "e", "e", "s">>,
    <<"S", "c", "o", "r", "e", " ", "3", ".", "5", " ", "o", "n", " ", "2", "0", "2", "4", "-", "1", "2", "-", "2", "5">>,
    <<"s", "c", "o", "r", "e", " ", "3", ".", "5", " ", "o", "n", " ", "2", "0", "2", "4", "-", "1", "2", "-", "2", "5">>,
    <<"o", "n", " ", "2", "0", "2", "4", "-", "1", "2", "-", "2", "5">>,
    <<"$", "5", "k", " ", "f", "e", "e", "s", ",", " ", "$", "2", "0", "0", "k", " ", "l", "o", "a", "n">>,
    <<"A", "p", "p", "r", "o", "v", "a", "l", " ", "g", "u", "a", "r", "a", "n", "t", "e", "e", "d">>,
    <<"a", "p", "p", "r", "o", "v", "a", "l", " ", "g", "u", "a", "r", "a", "n", "t", "e", "e", "d">>,
    <<"n", "o", "t", " ", "a", "p", "p", "r", "o", "v", "e", "d">>,
    <<"a", "p", "p", "r", "o", "v", "e", "d", ",", " ", "n", "o", " ", "i", "s", "s", "u", "e", "s">>,
    <<"$", "5", "K", " ", "f", "e", "e", "s", ",", " ", "$", "3", "0", "0", " ", "m", "o", "r", "t", "g", "a", "g", "e">>,
    <<"$", "5", "k", " ", "f", "e", "e", "s", ",", " ", "$", "3", "0", "0", " ", "m", "o", "r", "t", "g", "a", "g", "e">>
>>

\* compiled.search(subject), per pattern and per subject (in Subjects order),
\* as Python's re answers: span, number of groups and group(1)
SearchTable ==
    (P_DTI :> <<
        [matched |-> TRUE, start |-> 0, end |-> 7, ngroups |-> 1, g1 |-> <<"3", "5">>, g1none |-> FALSE],
        [matched |-> TRUE, start |-> 0, end |-> 7, ngroups |-> 1, g1 |-> <<"3", "5">>, g1none |-> FALSE],
        [matched |-> FALSE, start |-> 0, end |-> 0, ngroups |-> 0, g1 |-> <<>>, g1none |-> TRUE],
        [matched |-> FALSE, start |-> 0, end |-> 0, ngroups |-> 0, g1 |-> <<>>, g1none |-> TRUE],
        [matched |-> FALSE, start |-> 0, end |-> 0, ngroups |-> 0, g1 |-> <<>>, g1none |-> TRUE],
        [matched |-> FALSE, start |-> 0, end |-> 0, ngroups |-> 0, g1 |-> <<>>, g1none |-> TRUE],
        [matched |-> FALSE, start |-> 0, end |-> 0, ngroups |-> 0, g1 |-> <<>>, g1none |-> TRUE],
        [matched |-> FALSE, start |-> 0, end |-> 0, ngroups |-> 0, g1 |-> <<>>, g1none |-> TRUE],
        [matched |-> FALSE, start |-> 0, end |-> 0, ngroups |-> 0, g1 |-> <<>>, g1none |-> TRUE],
        [matched |-> FALSE, start |-> 0, end |-> 0, ngroups |-> 0, g1 |-> <<>>, g1none |-> TRUE],
        [matched |-> FALSE, start |-> 0, end |-> 0, ngroups |-> 0, g1 |-> <<>>, g1none |-> TRUE],
        [matched |-> FALSE, start |-> 0, end |-> 0, ngroups |-> 0, g1 |-> <<>>, g1none |-> TRUE],
        [matched |-> FALSE, start |-> 0, end |-> 0, ngroups |-> 0, g1 |-> <<>>, g1none |-> TRUE]
    >>)
    @@ (P_FICO :> <<
        [matched |-> TRUE, start |-> 9, end |-> 17, ngroups |-> 1, g1 |-> <<"7", "2", "0">>, g1none |-> FALSE],
        [matched |-> TRUE, start |-> 9, end |-> 17, ngroups |-> 1, g1 |-> <<"7", "2", "0">>, g1none |-> FALSE],
        [matched |-> FALSE, start |-> 0, end |-> 0, ngroups |-> 0, g1 |-> <<>>, g1none |-> TRUE],
        [matched |-> FALSE, start |-> 0, end |-> 0, ngroups |-> 0, g1 |-> <<>>, g1none |-> TRUE],
        [matched |-> FALSE, start |-> 0, end |-> 0, ngroups |-> 0, g1 |-> <<>>, g1none |-> TRUE],
        [matched |-> FALSE, start |-> 0, end |-> 0, ngroups |-> 0, g1 |-> <<>>, g1none |-> TRUE],
        [matched |-> FALSE, start |-> 0, end |-> 0, ngroups |-> 0, g1 |-> <<>>, g1none |-> TRUE],
        [matched |-> FALSE, start |-> 0, end |-> 0, ngroups |-> 0, g1 |-> <<>>, g1none |-> TRUE],
        [matched |-> FALSE, start |-> 0, end |-> 0, ngroups |-> 0, g1 |-> <<>>, g1none |-> TRUE],
        [matched |-> FALSE, start |-> 0, end |-> 0, ngroups |-> 0, g1 |-> <<>>, g1none |-> TRUE],
        [matched |-> FALSE, start |-> 0, end |-> 0, ngroups |-> 0, g1 |-> <<>>, g1none |-> TRUE],
        [matched |-> FALSE, start |-> 0, end |-> 0, ngroups |-> 0, g1 |-> <<>>, g1none |-> TRUE],
        [matched |-> FALSE, start |-> 0, end |-> 0, ngroups |-> 0, g1 |-> <<>>, g1none |-> TRUE]
    >>)
    @@ (P_FEES :> <<
        [matched |-> FALSE, start |-> 0, end |-> 0, ngroups |-> 0, g1 |-> <<>>, g1none |-> TRUE],
        [matched |-> FALSE, start |-> 0, end |-> 0, ngroups |-> 0, g1 |-> <<>>, g1none |-> TRUE],
        [matched |-> TRUE, start |-> 0, end |-> 6, ngroups |-> 1, g1 |-> <<",">>, g1none |-> FALSE],
        [matched |-> FALSE, start |-> 0, end |-> 0, ngroups |-> 0, g1 |-> <<>>, g1none |-> TRUE],
        [matched |-> FALSE, start |-> 0, end |-> 0, ngroups |-> 0, g1 |-> <<>>, g1none |-> TRUE],
        [matched |-> FALSE, start |-> 0, end |-> 0, ngroups |-> 0, g1 |-> <<>>, g1none |-> TRUE],
        [matched |-> TRUE, start |-> 0, end |-> 8, ngroups |-> 1, g1 |-> <<"5">>, g1none |-> FALSE],
        [matched |-> FALSE, start |-> 0, end |-> 0, ngroups |-> 0, g1 |-> <<>>, g1none |-> TRUE],
        [matched |-> FALSE, start |-> 0, end |-> 0, ngroups |-> 0, g1 |-> <<>>, g1none |-> TRUE],
        [matched |-> FALSE, start |-> 0, end |-> 0, ngroups |-> 0, g1 |-> <<>>, g1none |-> TRUE],
        [matched |-> FALSE, start |-> 0, end |-> 0, ngroups |-> 0, g1 |-> <<>>, g1none |-> TRUE],
        [matched |-> TRUE, start |-> 0, end |-> 8, ngroups |-> 1, g1 |-> <<"5">>, g1none |-> FALSE],
        [matched |-> TRUE, start |-> 0, end |-> 8, ngroups |-> 1, g1 |-> <<"5">>, g1none |-> FALSE]
    >>)
    @@ (P_LOAN :> <<
        [matched |-> FALSE, start |-> 0, end |-> 0, ngroups |-> 0, g1 |-> <<>>, g1none |-> TRUE],
        [matched |-> FALSE, start |-> 0, end |-> 0, ngroups |-> 0, g1 |-> <<>>, g1none |-> TRUE],
        [matched |-> FALSE, start |-> 0, end |-> 0, ngroups |-> 0, g1 |-> <<>>, g1none |-> TRUE],
        [matched |-> FALSE, start |-> 0, end |-> 0, ngroups |-> 0, g1 |-> <<>>, g1none |-> TRUE],
        [matched |-> FALSE, start |-> 0, end |-> 0, ngroups |-> 0, g1 |-> <<>>, g1none |-> TRUE],
        [matched |-> FALSE, start |-> 0, end |-> 0, ngroups |-> 0, g1 |-> <<>>, g1none |-> TRUE],
        [matched |-> TRUE, start |-> 10, end |-> 20, ngroups |-> 1, g1 |-> <<"2", "0", "0">>, g1none |-> FALSE],
        [matched |-> FALSE, start |-> 0, end |-> 0, ngroups |-> 0, g1 |-> <<>>, g1none |-> TRUE],
        [matched |-> FALSE, start |-> 0, end |-> 0, ngroups |-> 0, g1 |-> <<>>, g1none |-> TRUE],
        [matched |-> FALSE, start |-> 0, end |-> 0, ngroups |-> 0, g1 |-> <<>>, g1none |-> TRUE],
        [matched |-> FALSE, start |-> 0, end |-> 0, ngroups |-> 0, g1 |-> <<>>, g1none |-> TRUE],
        [matched |-> TRUE, start |-> 10, end |-> 23, ngroups |-> 1, g1 |-> <<"3", "0", "0">>, g1none |-> FALSE],
        [matched |-> TRUE, start |-> 10, end |-> 23, ngroups |-> 1, g1 |-> <<"3", "0", "0">>, g1none |-> FALSE]
    >>)
    @@ (P_SCORE :> <<
        [matched |-> FALSE, start |-> 0, end |-> 0, ngroups |-> 0, g1 |-> <<>>, g1none |-> TRUE],
        [matched |-> FALSE, start |-> 0, end |-> 0, ngroups |-> 0, g1 |-> <<>>, g1none |-> TRUE],
        [matched |-> FALSE, start |-> 0, end |-> 0, ngroups |-> 0, g1 |-> <<>>, g1none |-> TRUE],
        [matched |-> TRUE, start |-> 0, end |-> 9, ngroups |-> 1, g1 |-> <<"3", ".", "5">>, g1none |-> FALSE],
        [matched |-> TRUE, start |-> 0, end |-> 9, ngroups |-> 1, g1 |-> <<"3", ".", "5">>, g1none |-> FALSE],
        [matched |-> FALSE, start |-> 0, end |-> 0, ngroups |-> 0, g1 |-> <<>>, g1none |-> TRUE],
        [matched |-> FALSE, start |-> 0, end |-> 0, ngroups |-> 0, g1 |-> <<>>, g1none |-> TRUE],
        [matched |-> FALSE, start |-> 0, end |-> 0, ngroups |-> 0, g1 |-> <<>>, g1none |-> TRUE],
        [matched |-> FALSE, start |-> 0, end |-> 0, ngroups |-> 0, g1 |-> <<>>, g1none |-> TRUE],
        [matched |-> FALSE, start |-> 0, end |-> 0, ngroups |-> 0, g1 |-> <<>>, g1none |-> TRUE],
        [matched |-> FALSE, start |-> 0, end |-> 0, ngroups |-> 0, g1 |-> <<>>, g1none |-> TRUE],
        [matched |-> FALSE, start |-> 0, end |-> 0, ngroups |-> 0, g1 |-> <<>>, g1none |-> TRUE],
        [matched |-> FALSE, start |-> 0, end |-> 0, ngroups |-> 0, g1 |-> <<>>, g1none |-> TRUE]
    >>)
    @@ (P_ON :> <<
        [matched |-> FALSE, start |-> 0, end |-> 0, ngroups |-> 0, g1 |-> <<>>, g1none |-> TRUE],
        [matched |-> FALSE, start |-> 0, end |-> 0, ngroups |-> 0, g1 |-> <<>>, g1none |-> TRUE],
        [matched |-> FALSE, start |-> 0, end |-> 0, ngroups |-> 0, g1 |-> <<>>, g1none |-> TRUE],
        [matched |-> TRUE, start |-> 10, end |-> 23, ngroups |-> 1, g1 |-> <<"2", "0", "2", "4", "-", "1", "2", "-", "2", "5">>, g1none |-> FALSE],
        [matched |-> TRUE, start |-> 10, end |-> 23, ngroups |-> 1, g1 |-> <<"2", "0", "2", "4", "-", "1", "2", "-", "2", "5">>, g1none |-> FALSE],
        [matched |-> TRUE, start |-> 0, end |-> 13, ngroups |-> 1, g1 |-> <<"2", "0", "2", "4", "-", "1", "2", "-", "2", "5">>, g1none |-> FALSE],
        [matched |-> FALSE, start |-> 0, end |-> 0, ngroups |-> 0, g1 |-> <<>>, g1none |-> TRUE],
        [matched |-> FALSE, start |-> 0, end |-> 0, ngroups |-> 0, g1 |-> <<>>, g1none |-> TRUE],
        [matched |-> FALSE, start |-> 0, end |-> 0, ngroups |-> 0, g1 |-> <<>>, g1none |-> TRUE],
        [matched |-> FALSE, start |-> 0, end |-> 0, ngroups |-> 0, g1 |-> <<>>, g1none |-> TRUE],
        [matched |-> FALSE, start |-> 0, end |-> 0, ngroups |-> 0, g1 |-> <<>>, g1none |-> TRUE],
        [matched |-> FALSE, start |-> 0, end |-> 0, ngroups |-> 0, g1 |-> <<>>, g1none |-> TRUE],
        [matched |-> FALSE, start |-> 0, end |-> 0, ngroups |-> 0, g1 |-> <<>>, g1none |-> TRUE]
    >>)
    @@ (P_AMOUNTS :> <<
        [matched |-> FALSE, start |-> 0, end |-> 0, ngroups |-> 0, g1 |-> <<>>, g1none |-> TRUE],
        [matched |-> FALSE, start |-> 0, end |-> 0, ngroups |-> 0, g1 |-> <<>>, g1none |-> TRUE],
        [matched |-> FALSE, start |-> 0, end |-> 0, ngroups |-> 0, g1 |-> <<>>, g1none |-> TRUE],
        [matched |-> FALSE, start |-> 0, end |-> 0, ngroups |-> 0, g1 |-> <<>>, g1none |-> TRUE],
        [matched |-> FALSE, start |-> 0, end |-> 0, ngroups |-> 0, g1 |-> <<>>, g1none |-> TRUE],
        [matched |-> FALSE, start |-> 0, end |-> 0, ngroups |-> 0, g1 |-> <<>>, g1none |-> TRUE],
        [matched |-> TRUE, start |-> 0, end |-> 3, ngroups |-> 1, g1 |-> <<"5">>, g1none |-> FALSE],
        [matched |-> FALSE, start |-> 0, end |-> 0, ngroups |-> 0, g1 |-> <<>>, g1none |-> TRUE],
        [matched |-> FALSE, start |-> 0, end |-> 0, ngroups |-> 0, g1 |-> <<>>, g1none |-> TRUE],
        [matched |-> FALSE, start |-> 0, end |-> 0, ngroups |-> 0, g1 |-> <<>>, g1none |-> TRUE],
        [matched |-> FALSE, start |-> 0, end |-> 0, ngroups |-> 0, g1 |-> <<>>, g1none |-> TRUE],
        [matched |-> TRUE, start |-> 0, end |-> 3, ngroups |-> 1, g1 |-> <<"5">>, g1none |-> FALSE],
        [matched |-> TRUE, start |-> 0, end |-> 3, ngroups |-> 1, g1 |-> <<"5">>, g1none |-> FALSE]
    >>)
    @@ (P_DATE1 :> <<
        [matched |-> FALSE, start |-> 0, end |-> 0, ngroups |-> 0, g1 |-> <<>>, g1none |-> TRUE],
        [matched |-> FALSE, start |-> 0, end |-> 0, ngroups |-> 0, g1 |-> <<>>, g1none |-> TRUE],
        [matched |-> FALSE, start |-> 0, end |-> 0, ngroups |-> 0, g1 |-> <<>>, g1none |-> TRUE],
        [matched |-> TRUE, start |-> 13, end |-> 23, ngroups |-> 3, g1 |-> <<"2", "0", "2", "4">>, g1none |-> FALSE],
        [matched |-> TRUE, start |-> 13, end |-> 23, ngroups |-> 3, g1 |-> <<"2", "0", "2", "4">>, g1none |-> FALSE],
        [matched |-> TRUE, start |-> 3, end |-> 13, ngroups |-> 3, g1 |-> <<"2", "0", "2", "4">>, g1none |-> FALSE],
        [matched |-> FALSE, start |-> 0, end |-> 0, ngroups |-> 0, g1 |-> <<>>, g1none |-> TRUE],
        [matched |-> FALSE, start |-> 0, end |-> 0, ngroups |-> 0, g1 |-> <<>>, g1none |-> TRUE],
        [matched |-> FALSE, start |-> 0, end |-> 0, ngroups |-> 0, g1 |-> <<>>, g1none |-> TRUE],
        [matched |-> FALSE, start |-> 0, end |-> 0, ngroups |-> 0, g1 |-> <<>>, g1none |-> TRUE],
        [matched |-> FALSE, start |-> 0, end |-> 0, ngroups |-> 0, g1 |-> <<>>, g1none |-> TRUE],
        [matched |-> FALSE, start |-> 0, end |-> 0, ngroups |-> 0, g1 |-> <<>>, g1none |-> TRUE],
        [matched |-> FALSE, start |-> 0, end |-> 0, ngroups |-> 0, g1 |-> <<>>, g1none |-> TRUE]
    >>)
    @@ (P_DATE2 :> <<
        [matched |-> FALSE, start |-> 0, end |-> 0, ngroups |-> 0, g1 |-> <<>>, g1none |-> TRUE],
        [matched |-> FALSE, start |-> 0, end |-> 0, ngroups |-> 0, g1 |-> <<>>, g1none |-> TRUE],
        [matched |-> FALSE, start |-> 0, end |-> 0, ngroups |-> 0, g1 |-> <<>>, g1none |-> TRUE],
        [matched |-> FALSE, start |-> 0, end |-> 0, ngroups |-> 0, g1 |-> <<>>, g1none |-> TRUE],
        [matched |-> FALSE, start |-> 0, end |-> 0, ngroups |-> 0, g1 |-> <<>>, g1none |-> TRUE],
        [matched |-> FALSE, start |-> 0, end |-> 0, ngroups |-> 0, g1 |-> <<>>, g1none |-> TRUE],
        [matched |-> FALSE, start |-> 0, end |-> 0, ngroups |-> 0, g1 |-> <<>>, g1none |-> TRUE],
        [matched |-> FALSE, start |-> 0, end |-> 0, ngroups |-> 0, g1 |-> <<>>, g1none |-> TRUE],
        [matched |-> FALSE, start |-> 0, end |-> 0, ngroups |-> 0, g1 |-> <<>>, g1none |-> TRUE],
        [matched |-> FALSE, start |-> 0, end |-> 0, ngroups |-> 0, g1 |-> <<>>, g1none |-> TRUE],
        [matched |-> FALSE, start |-> 0, end |-> 0, ngroups |-> 0, g1 |-> <<>>, g1none |-> TRUE],
        [matched |-> FALSE, start |-> 0, end |-> 0, ngroups |-> 0, g1 |-> <<>>, g1none |-> TRUE],
        [matched |-> FALSE, start |-> 0, end |-> 0, ngroups |-> 0, g1 |-> <<>>, g1none |-> TRUE]
    >>)
    @@ (P_DATE3 :> <<
        [matched |-> FALSE, start |-> 0, end |-> 0, ngroups |-> 0, g1 |-> <<>>, g1none |-> TRUE],
        [matched |-> FALSE, start |-> 0, end |-> 0, ngroups |-> 0, g1 |-> <<>>, g1none |-> TRUE],
        [matched |-> FALSE, start |-> 0, end |-> 0, ngroups |-> 0, g1 |-> <<>>, g1none |-> TRUE],
        [matched |-> FALSE, start |-> 0, end |-> 0, ngroups |-> 0, g1 |-> <<>>, g1none |-> TRUE],
        [matched |-> FALSE, start |-> 0, end |-> 0, ngroups |-> 0, g1 |-> <<>>, g1none |-> TRUE],
        [matched |-> FALSE, start |-> 0, end |-> 0, ngroups |-> 0, g1 |-> <<>>, g1none |-> TRUE],
        [matched |-> FALSE, start |-> 0, end |-> 0, ngroups |-> 0, g1 |-> <<>>, g1none |-> TRUE],
        [matched |-> FALSE, start |-> 0, end |-> 0, ngroups |-> 0, g1 |-> <<>>, g1none |-> TRUE],
        [matched |-> FALSE, start |-> 0, end |-> 0, ngroups |-> 0, g1 |-> <<>>, g1none |-> TRUE],
        [matched |-> FALSE, start |-> 0, end |-> 0, ngroups |-> 0, g1 |-> <<>>, g1none |-> TRUE],
        [matched |-> FALSE, start |-> 0, end |-> 0, ngroups |-> 0, g1 |-> <<>>, g1none |-> TRUE],
        [matched |-> FALSE, start |-> 0, end |-> 0, ngroups |-> 0, g1 |-> <<>>, g1none |-> TRUE],
        [matched |-> FALSE, start |-> 0, end |-> 0, ngroups |-> 0, g1 |-> <<>>, g1none |-> TRUE]
    >>)
    @@ (P_DATE4 :> <<
        [matched |-> FALSE, start |-> 0, end |-> 0, ngroups |-> 0, g1 |-> <<>>, g1none |-> TRUE],
        [matched |-> FALSE, start |-> 0, end |-> 0, ngroups |-> 0, g1 |-> <<>>, g1none |-> TRUE],
        [matched |-> FALSE, start |-> 0, end |-> 0, ngroups |-> 0, g1 |-> <<>>, g1none |-> TRUE],
        [matched |-> FALSE, start |-> 0, end |-> 0, ngroups |-> 0, g1 |-> <<>>, g1none |-> TRUE],
        [matched |-> FALSE, start |-> 0, end |-> 0, ngroups |-> 0, g1 |-> <<>>, g1none |-> TRUE],
        [matched |-> FALSE, start |-> 0, end |-> 0, ngroups |-> 0, g1 |-> <<>>, g1none |-> TRUE],
        [matched |-> FALSE, start |-> 0, end |-> 0, ngroups |-> 0, g1 |-> <<>>, g1none |-> TRUE],
        [matched |-> FALSE, start |-> 0, end |-> 0, ngroups |-> 0, g1 |-> <<>>, g1none |-> TRUE],
        [matched |-> FALSE, start |-> 0, end |-> 0, ngroups |-> 0, g1 |-> <<>>, g1none |-> TRUE],
        [matched |-> FALSE, start |-> 0, end |-> 0, ngroups |-> 0, g1 |-> <<>>, g1none |-> TRUE],
        [matched |-> FALSE, start |-> 0, end |-> 0, ngroups |-> 0, g1 |-> <<>>, g1none |-> TRUE],
        [matched |-> FALSE, start |-> 0, end |-> 0, ngroups |-> 0, g1 |-> <<>>, g1none |-> TRUE],
        [matched |-> FALSE, start |-> 0, end |-> 0, ngroups |-> 0, g1 |-> <<>>, g1none |-> TRUE]
    >>)
    @@ (P_DATE5 :> <<
        [matched |-> FALSE, start |-> 0, end |-> 0, ngroups |-> 0, g1 |-> <<>>, g1none |-> TRUE],
        [matched |-> FALSE, start |-> 0, end |-> 0, ngroups |-> 0, g1 |-> <<>>, g1none |-> TRUE],
        [matched |-> FALSE, start |-> 0, end |-> 0, ngroups |-> 0, g1 |-> <<>>, g1none |-> TRUE],
        [matched |-> FALSE, start |-> 0, end |-> 0, ngroups |-> 0, g1 |-> <<>>, g1none |-> TRUE],
        [matched |-> FALSE, start |-> 0, end |-> 0, ngroups |-> 0, g1 |-> <<>>, g1none |-> TRUE],
        [matched |-> FALSE, start |-> 0, end |-> 0, ngroups |-> 0, g1 |-> <<>>, g1none |-> TRUE],
        [matched |-> FALSE, start |-> 0, end |-> 0, ngroups |-> 0, g1 |-> <<>>, g1none |-> TRUE],
        [matched |-> FALSE, start |-> 0, end |-> 0, ngroups |-> 0, g1 |-> <<>>, g1none |-> TRUE],
        [matched |-> FALSE, start |-> 0, end |-> 0, ngroups |-> 0, g1 |-> <<>>, g1none |-> TRUE],
        [matched |-> FALSE, start |-> 0, end |-> 0, ngroups |-> 0, g1 |-> <<>>, g1none |-> TRUE],
        [matched |-> FALSE, start |-> 0, end |-> 0, ngroups |-> 0, g1 |-> <<>>, g1none |-> TRUE],
        [matched |-> FALSE, start |-> 0, end |-> 0, ngroups |-> 0, g1 |-> <<>>, g1none |-> TRUE],
        [matched |-> FALSE, start |-> 0, end |-> 0, ngroups |-> 0, g1 |-> <<>>, g1none |-> TRUE]
    >>)
    @@ (P_DATETIME1 :> <<
        [matched |-> FALSE, start |-> 0, end |-> 0, ngroups |-> 0, g1 |-> <<>>, g1none |-> TRUE],
        [matched |-> FALSE, start |-> 0, end |-> 0, ngroups |-> 0, g1 |-> <<>>, g1none |-> TRUE],
        [matched |-> FALSE, start |-> 0, end |-> 0, ngroups |-> 0, g1 |-> <<>>, g1none |-> TRUE],
        [matched |-> FALSE, start |-> 0, end |-> 0, ngroups |-> 0, g1 |-> <<>>, g1none |-> TRUE],
        [matched |-> FALSE, start |-> 0, end |-> 0, ngroups |-> 0, g1 |-> <<>>, g1none |-> TRUE],
        [matched |-> FALSE, start |-> 0, end |-> 0, ngroups |-> 0, g1 |-> <<>>, g1none |-> TRUE],
        [matched |-> FALSE, start |-> 0, end |-> 0, ngroups |-> 0, g1 |-> <<>>, g1none |-> TRUE],
        [matched |-> FALSE, start |-> 0, end |-> 0, ngroups |-> 0, g1 |-> <<>>, g1none |-> TRUE],
        [matched |-> FALSE, start |-> 0, end |-> 0, ngroups |-> 0, g1 |-> <<>>, g1none |-> TRUE],
        [matched |-> FALSE, start |-> 0, end |-> 0, ngroups |-> 0, g1 |-> <<>>, g1none |-> TRUE],
        [matched |-> FALSE, start |-> 0, end |-> 0, ngroups |-> 0, g1 |-> <<>>, g1none |-> TRUE],
        [matched |-> FALSE, start |-> 0, end |-> 0, ngroups |-> 0, g1 |-> <<>>, g1none |-> TRUE],
        [matched |-> FALSE, start |-> 0, end |-> 0, ngroups |-> 0, g1 |-> <<>>, g1none |-> TRUE]
    >>)
    @@ (P_DATETIME2 :> <<
        [matched |-> FALSE, start |-> 0, end |-> 0, ngroups |-> 0, g1 |-> <<>>, g1none |-> TRUE],
        [matched |-> FALSE, start |-> 0, end |-> 0, ngroups |-> 0, g1 |-> <<>>, g1none |-> TRUE],
        [matched |-> FALSE, start |-> 0, end |-> 0, ngroups |-> 0, g1 |-> <<>>, g1none |-> TRUE],
        [matched |-> FALSE, start |-> 0, end |-> 0, ngroups |-> 0, g1 |-> <<>>, g1none |-> TRUE],
        [matched |-> FALSE, start |-> 0, end |-> 0, ngroups |-> 0, g1 |-> <<>>, g1none |-> TRUE],
        [matched |-> FALSE, start |-> 0, end |-> 0, ngroups |-> 0, g1 |-> <<>>, g1none |-> TRUE],
        [matched |-> FALSE, start |-> 0, end |-> 0, ngroups |-> 0, g1 |-> <<>>, g1none |-> TRUE],
        [matched |-> FALSE, start |-> 0, end |-> 0, ngroups |-> 0, g1 |-> <<>>, g1none |-> TRUE],
        [matched |-> FALSE, start |-> 0, end |-> 0, ngroups |-> 0, g1 |-> <<>>, g1none |-> TRUE],
        [matched |-> FALSE, start |-> 0, end |-> 0, ngroups |-> 0, g1 |-> <<>>, g1none |-> TRUE],
        [matched |-> FALSE, start |-> 0, end |-> 0, ngroups |-> 0, g1 |-> <<>>, g1none |-> TRUE],
        [matched |-> FALSE, start |-> 0, end |-> 0, ngroups |-> 0, g1 |-> <<>>, g1none |-> TRUE],
        [matched |-> FALSE, start |-> 0, end |-> 0, ngroups |-> 0, g1 |-> <<>>, g1none |-> TRUE]
    >>)

\* compiled.findall(subject) for patterns with at most one group
FindallTable ==
    (P_DTI :> <<
        <<<<"3", "5">>>>,
        <<<<"3", "5">>>>,
        <<>>,
        <<>>,
        <<>>,
        <<>>,
        <<>>,
        <<>>,
        <<>>,
        <<>>,
        <<>>,
        <<>>,
        <<>>
    >>)
    @@ (P_FICO :> <<
        <<<<"7", "2", "0">>>>,
        <<<<"7", "2", "0">>>>,
        <<>>,
        <<>>,
        <<>>,
        <<>>,
        <<>>,
        <<>>,
        <<>>,
        <<>>,
        <<>>,
        <<>>,
        <<>>
    >>)
    @@ (P_FEES :> <<
        <<>>,
        <<>>,
        <<<<",">>>>,
        <<>>,
        <<>>,
        <<>>,
        <<<<"5">>>>,
        <<>>,
        <<>>,
        <<>>,
        <<>>,
        <<<<"5">>>>,
        <<<<"5">>>>
    >>)
    @@ (P_LOAN :> <<
        <<>>,
        <<>>,
        <<>>,
        <<>>,
        <<>>,
        <<>>,
        <<<<"2", "0", "0">>>>,
        <<>>,
        <<>>,
        <<>>,
        <<>>,
        <<<<"3", "0", "0">>>>,
        <<<<"3", "0", "0">>>>
    >>)
    @@ (P_SCORE :> <<
        <<>>,
        <<>>,
        <<>>,
        <<<<"3", ".", "5">>>>,
        <<<<"3", ".", "5">>>>,
        <<>>,
        <<>>,
        <<>>,
        <<>>,
        <<>>,
        <<>>,
        <<>>,
        <<>>
    >>)
    @@ (P_ON :> <<
        <<>>,
        <<>>,
        <<>>,
        <<<<"2", "0", "2", "4", "-", "1", "2", "-", "2", "5">>>>,
        <<<<"2", "0", "2", "4", "-", "1", "2", "-", "2", "5">>>>,
        <<<<"2", "0", "2", "4", "-", "1", "2", "-", "2", "5">>>>,
        <<>>,
        <<>>,
        <<>>,
        <<>>,
        <<>>,
        <<>>,
        <<>>
    >>)
    @@ (P_AMOUNTS :> <<
        <<>>,
        <<>>,
        <<>>,
        <<>>,
        <<>>,
        <<>>,
        <<<<"5">>, <<"2", "0", "0">>>>,
        <<>>,
        <<>>,
        <<>>,
        <<>>,
        <<<<"5">>>>,
        <<<<"5">>>>
    >>)
    @@ (P_DATE4 :> <<
        <<>>,
        <<>>,
        <<>>,
        <<>>,
        <<>>,
        <<>>,
        <<>>,
        <<>>,
        <<>>,
        <<>>,
        <<>>,
        <<>>,
        <<>>
    >>)
    @@ (P_DATE5 :> <<
        <<>>,
        <<>>,
        <<>>,
        <<>>,
        <<>>,
        <<>>,
        <<>>,
        <<>>,
        <<>>,
        <<>>,
        <<>>,
        <<>>,
        <<>>
    >>)
    @@ (P_DATETIME1 :> <<
        <<>>,
        <<>>,
        <<>>,
        <<>>,
        <<>>,
        <<>>,
        <<>>,
        <<>>,
        <<>>,
        <<>>,
        <<>>,
        <<>>,
        <<>>
    >>)
    @@ (P_DATETIME2 :> <<
        <<>>,
        <<>>,
        <<>>,
        <<>>,
        <<>>,
        <<>>,
        <<>>,
        <<>>,
        <<>>,
        <<>>,
        <<>>,
        <<>>,
        <<>>
    >>)

\* the strings on which the datetime.strptime loop of _normalize_date
\* succeeds, with the strftime('%Y-%m-%d') of the result
StrptimeDate == <<
    [str |-> <<"2", "0", "2", "4", "-", "1", "2", "-", "2", "5">>, iso |-> <<"2", "0", "2", "4", "-", "1", "2", "-", "2", "5">>]
>>

\* the same for _normalize_datetime (after strip and 'T' -> ' ')
StrptimeDatetime == <<>>
(* ---------------------------- end of tables ---------------------------- *)

-----------------------------------------------------------------------------
(* Python values.  A value is a record of one shape; `t` is its type tag.   *)
(* Numbers are exact rationals n/d (d > 0, lowest terms); a string is the   *)
(* tuple of its characters; "raise" stands for a raised exception.          *)

RECURSIVE Gcd(_, _)
Gcd(a, b) == IF b = 0 THEN a ELSE Gcd(b, a % b)

Abs(i) == IF i < 0 THEN -i ELSE i

Val(t, n, d, s, l) == [t |-> t, n |-> n, d |-> d, s |-> s, l |-> l]

Null == Val("null", 0, 1, <<>>, <<>>)
BoolV(b) == Val("bool", IF b THEN 1 ELSE 0, 1, <<>>, <<>>)
IntV(i) == Val("int", i, 1, <<>>, <<>>)
FloatV(n, d) ==
    LET g == Gcd(Abs(n), d) IN Val("float", n \div g, d \div g, <<>>, <<>>)
StrV(s) == Val("str", 0, 1, s, <<>>)
ListV(l) == Val("list", 0, 1, <<>>, l)
DictV(n) == Val("dict", n, 1, <<>>, <<>>)
RaiseV(kind) == Val("raise", 0, 1, <<kind>>, <<>>)

True == BoolV(TRUE)
False == BoolV(FALSE)

IsNone(v) == v.t = "null"
IsRaise(v) == v.t = "raise"
\* isinstance(v, (int, float)): bool is a subclass of int
IsNum(v) == v.t \in {"bool", "int", "float"}
\* `v is True`
IsTrue(v) == v.t = "bool" /\ v.n = 1
\* `v is False`
IsFalse(v) == v.t = "bool" /\ v.n = 0
\* bool(v)
Truthy(v) ==
    CASE v.t = "null" -> FALSE
      [] v.t \in {"bool", "int", "float"} -> v.n # 0
      [] v.t = "str" -> v.s # <<>>
      [] v.t = "list" -> v.l # <<>>
      [] v.t = "dict" -> v.n # 0
      [] OTHER -> FALSE

\* the numeric result type of Python arithmetic over a and b
NumV(isFloat, n, d) == IF isFloat THEN FloatV(n, d) ELSE IntV(n \div d)

AnyFloat(vs) == \E i \in 1..Len(vs) : vs[i].t = "float"
AnyRaise(vs) == \E i \in 1..Len(vs) : IsRaise(vs[i])
AllNum(vs) == \A i \in 1..Len(vs) : IsNum(vs[i])
FirstRaise(vs) == vs[CHOOSE i \in 1..Len(vs) :
                        IsRaise(vs[i]) /\ \A j \in 1..(i-1) : ~IsRaise(vs[j])]

\* the code point order of two characters
Ord(c) == CHOOSE i \in 1..Len(Alphabet) : Alphabet[i] = c

RECURSIVE SeqLess(_, _)
SeqLess(a, b) ==
    IF b = <<>> THEN FALSE
    ELSE IF a = <<>> THEN TRUE
    ELSE IF Ord(Head(a)) # Ord(Head(b)) THEN Ord(Head(a)) < Ord(Head(b))
    ELSE SeqLess(Tail(a), Tail(b))

PyEqNum(a, b) == a.n * b.d = b.n * a.d
\* Python's  a == b
PyEq(a, b) == IF IsNum(a) /\ IsNum(b) THEN PyEqNum(a, b) ELSE a = b

\* Python's  a < b  (lists compare at their first unequal items)
RECURSIVE PyLess(_, _)
RECURSIVE ListLess(_, _)
ListLess(a, b) ==
    IF b = <<>> THEN BoolV(FALSE)
    ELSE IF a = <<>> THEN BoolV(TRUE)
    ELSE IF PyEq(Head(a), Head(b)) THEN ListLess(Tail(a), Tail(b))
    ELSE PyLess(Head(a), Head(b))
PyLess(a, b) ==
    IF IsNum(a) /\ IsNum(b) THEN BoolV(a.n * b.d < b.n * a.d)
    ELSE IF a.t = "str" /\ b.t = "str" THEN BoolV(SeqLess(a.s, b.s))
    ELSE IF a.t = "list" /\ b.t = "list" THEN ListLess(a.l, b.l)
    ELSE RaiseV("TypeError")

PyNot(b) == IF IsRaise(b) THEN b ELSE BoolV(~Truthy(b))

\* Python's  a + b
PyAdd(a, b) ==
    IF IsRaise(a) THEN a
    ELSE IF IsRaise(b) THEN b
    ELSE IF IsNum(a) /\ IsNum(b)
        THEN NumV(a.t = "float" \/ b.t = "float", a.n * b.d + b.n * a.d, a.d * b.d)
    ELSE IF a.t = "str" /\ b.t = "str" THEN StrV(a.s \o b.s)
    ELSE IF a.t = "list" /\ b.t = "list" THEN ListV(a.l \o b.l)
    ELSE RaiseV("TypeError")

RECURSIVE Repeat(_, _)
Repeat(s, k) == IF k <= 0 THEN <<>> ELSE s \o Repeat(s, k - 1)

IsIntLike(v) == v.t \in {"bool", "int"}

\* Python's  a * b
PyMul(a, b) ==
    IF IsRaise(a) THEN a
    ELSE IF IsRaise(b) THEN b
    ELSE IF IsNum(a) /\ IsNum(b)
        THEN NumV(a.t = "float" \/ b.t = "float", a.n * b.n, a.d * b.d)
    ELSE IF a.t = "str" /\ IsIntLike(b) THEN StrV(Repeat(a.s, b.n))
    ELSE IF IsIntLike(a) /\ b.t = "str" THEN StrV(Repeat(b.s, a.n))
    ELSE IF a.t = "list" /\ IsIntLike(b) THEN ListV(Repeat(a.l, b.n))
    ELSE IF IsIntLike(a) /\ b.t = "list" THEN ListV(Repeat(b.l, a.n))
    ELSE RaiseV("TypeError")

\* Python's  a / b
PyDiv(a, b) ==
    IF ~(IsNum(a) /\ IsNum(b)) THEN RaiseV("TypeError")
    ELSE IF b.n = 0 THEN RaiseV("ZeroDivisionError")
    ELSE IF b.n > 0 THEN FloatV(a.n * b.d, a.d * b.n)
    ELSE FloatV(-(a.n * b.d), a.d * (-b.n))

RECURSIVE FoldAdd(_, _)
FoldAdd(acc, vs) == IF vs = <<>> THEN acc ELSE FoldAdd(PyAdd(acc, Head(vs)), Tail(vs))

RECURSIVE FoldMul(_, _)
FoldMul(acc, vs) == IF vs = <<>> THEN acc ELSE FoldMul(PyMul(acc, Head(vs)), Tail(vs))

-----------------------------------------------------------------------------
(* The `extracted` dict: a sequence of [name, val] in insertion order.      *)
(* Assigning to a key that is present keeps the key's position.             *)

Keys(dict) == [i \in 1..Len(dict) |-> dict[i].name]
KeySet(dict) == {dict[i].name : i \in 1..Len(dict)}
Has(dict, k) == k \in KeySet(dict)
Pos(dict, k) == CHOOSE i \in 1..Len(dict) : dict[i].name = k
Get(dict, k, default) == IF Has(dict, k) THEN dict[Pos(dict, k)].val ELSE default
Put(dict, k, v) ==
    IF Has(dict, k)
    THEN [dict EXCEPT ![Pos(dict, k)] = [name |-> k, val |-> v]]
    ELSE Append(dict, [name |-> k, val |-> v])

-----------------------------------------------------------------------------
(* The formula DSL.  A formula is a JSON value: a string (k = "str"), a     *)
(* number / boolean / null / list literal (k = "lit") or an object          *)
(* (k = "dict") given as its entries in order.  An entry's value is a list  *)
(* of formulas (islist) or one bare formula (args = <<that formula>>).      *)

Ref(name) == [k |-> "str", s |-> name, v |-> Null, entries |-> <<>>]
Lit(v) == [k |-> "lit", s |-> "", v |-> v, entries |-> <<>>]
DictF(entries) == [k |-> "dict", s |-> "", v |-> Null, entries |-> entries]
Entry(op, args) == [op |-> op, islist |-> TRUE, args |-> args]
Entry1(op, arg) == [op |-> op, islist |-> FALSE, args |-> <<arg>>]
F(op, args) == DictF(<<Entry(op, args)>>)
F1(op, arg) == DictF(<<Entry1(op, arg)>>)
\* extractor.get('formula') of an extractor without the key
NoFormula == Lit(Null)

\* bool(formula), as `if not formula` sees it
FormulaTruthy(f) ==
    CASE f.k = "str" -> f.s # ""
      [] f.k = "dict" -> f.entries # <<>>
      [] OTHER -> Truthy(f.v)

\* a formula used directly as a value (`... else a`)
AsValue(f) == IF f.k = "dict" THEN DictV(Len(f.entries)) ELSE f.v

RECURSIVE ExtractFormulaDependencies(_)
ExtractFormulaDependencies(formula) ==
    CASE formula.k = "str" -> {formula.s}
      [] formula.k = "dict" ->
            UNION { UNION { ExtractFormulaDependencies(formula.entries[i].args[j]) :
                            j \in 1..Len(formula.entries[i].args) } :
                    i \in 1..Len(formula.entries) }
      [] OTHER -> {}

\* get_value(field, default) of _calculate_computed_fields in raw mode:
\* extracted.get(field, default).  Keys are strings, so a hashable literal is
\* never found; a list or a dict is unhashable.
GetValue(dict, f, default) ==
    CASE f.k = "str" -> Get(dict, f.s, default)
      [] f.k = "lit" -> IF f.v.t = "list" THEN RaiseV("TypeError") ELSE default
      [] OTHER -> RaiseV("TypeError")

\* `get_value(a) if isinstance(a, str) else a`
\* (faulty variant: an absent field is read as 0)
OperandOrZero(dict, f) == IF f.k = "str" THEN Get(dict, f.s, IntV(0)) ELSE AsValue(f)
Operand(dict, f) == IF f.k = "str" THEN Get(dict, f.s, Null) ELSE AsValue(f)

\* left OP right of the four comparison operators
Compare(op, left, right) ==
    LET lt == PyLess(left, right)
        gt == PyLess(right, left)
    IN  CASE op \in {"gt", ">"} -> gt
          [] op \in {"lt", "<"} -> lt
          [] op \in {"gte", ">="} -> PyNot(lt)
          [] op \in {"lte", "<="} -> PyNot(gt)

\* len(args) of an operator whose args are not a list: a bare string of two
\* or more characters indexes into single characters, which name no field
\* (every field name of the model has at least two characters), so the
\* operator ends in None; a number, boolean or null has no len().
\* "none" | "raise" | "keys" (a dict: its keys are iterated / indexed)
BareArgs(a) ==
    CASE a.k = "str" -> "none"
      [] a.k = "lit" -> "raise"
      [] OTHER -> "keys"

\* line 693: isinstance(formula, dict) and len(formula) == 1
\* (faulty variant: the length test only rejects the empty object)
IsSingleKeyDictLax(formula) == formula.k = "dict" /\ Len(formula.entries) >= 1
IsSingleKeyDict(formula) == formula.k = "dict" /\ Len(formula.entries) = 1

RECURSIVE EvaluateFormula(_, _)
EvaluateFormula(formula, dict) ==
    IF ~IsSingleKeyDict(formula) THEN Null
    ELSE
    LET e == formula.entries[1]
        op == e.op
        args == e.args
        n == Len(args)
        \* dict -> evaluate, anything else -> get_value(f, False)
        evalOrGetFalse == [i \in 1..n |->
            IF args[i].k = "dict" THEN EvaluateFormula(args[i], dict)
            ELSE GetValue(dict, args[i], False)]
        \* dict -> evaluate, str -> get_value(a), anything else -> a
        evalOrOperand == [i \in 1..n |->
            IF args[i].k = "dict" THEN EvaluateFormula(args[i], dict)
            ELSE Operand(dict, args[i])]
    IN
    CASE op = "count_true" ->
            LET vals == [i \in 1..n |-> GetValue(dict, args[i], False)]
            IN  IF AnyRaise(vals) THEN FirstRaise(vals)
                ELSE IntV(Cardinality({i \in 1..n : IsTrue(vals[i])}))
      [] op = "count_fields" ->
            LET vals == [i \in 1..n |-> GetValue(dict, args[i], Null)]
            IN  IF AnyRaise(vals) THEN FirstRaise(vals)
                ELSE IntV(Cardinality({i \in 1..n : ~IsNone(vals[i])}))
      [] op = "sum" ->
            LET vals == [i \in 1..n |->
                    IF args[i].k = "str" THEN Get(dict, args[i].s, IntV(0))
                    ELSE AsValue(args[i])]
                nums == SelectSeq(vals, IsNum)
            IN  FoldAdd(IntV(0), nums)
      [] op = "any" ->
            IF AnyRaise(evalOrGetFalse) THEN FirstRaise(evalOrGetFalse)
            ELSE BoolV(\E i \in 1..n : ~IsNone(evalOrGetFalse[i]) /\ Truthy(evalOrGetFalse[i]))
      [] op = "all" ->
            IF AnyRaise(evalOrGetFalse) THEN FirstRaise(evalOrGetFalse)
            ELSE BoolV(\A i \in 1..n : IsNone(evalOrGetFalse[i]) \/ Truthy(evalOrGetFalse[i]))
      [] op \in {"gt", ">", "gte", ">=", "lt", "<", "lte", "<="} ->
            IF ~e.islist
            THEN CASE BareArgs(args[1]) = "none" -> Null
                   [] BareArgs(args[1]) = "raise" -> RaiseV("TypeError")
                   [] OTHER -> IF Len(args[1].entries) = 2 THEN RaiseV("KeyError") ELSE Null
            ELSE IF n # 2 THEN Null
            ELSE LET left == Operand(dict, args[1])
                     right == Operand(dict, args[2])
                 IN  IF ~IsNone(left) /\ ~IsNone(right) THEN Compare(op, left, right)
                     ELSE Null
      [] op \in {"add", "+", "mul", "*"} ->
            LET \* the values of `for a in args`
                values ==
                    IF e.islist THEN evalOrOperand
                    ELSE [i \in 1..Len(args[1].entries) |->
                            Get(dict, args[1].entries[i].op, Null)]
            IN  IF ~e.islist /\ BareArgs(args[1]) = "none" THEN Null
                ELSE IF ~e.islist /\ BareArgs(args[1]) = "raise" THEN RaiseV("TypeError")
                ELSE IF Len(values) < 2 THEN Null
                ELSE IF AnyRaise(values) THEN FirstRaise(values)
                ELSE IF \E i \in 1..Len(values) : IsNone(values[i]) THEN Null
                ELSE IF op \in {"add", "+"} THEN FoldAdd(IntV(0), values)
                ELSE FoldMul(IntV(1), values)
      [] op = "if" ->
            IF ~e.islist
            THEN CASE BareArgs(args[1]) = "none" -> Null
                   [] BareArgs(args[1]) = "raise" -> RaiseV("TypeError")
                   [] OTHER -> IF Len(args[1].entries) = 3 THEN RaiseV("KeyError") ELSE Null
            ELSE IF n # 3 THEN Null
            ELSE LET cond_result == evalOrOperand[1]
                 IN  IF IsRaise(cond_result) THEN cond_result
                     ELSE IF Truthy(cond_result) THEN Operand(dict, args[2])
                     ELSE Operand(dict, args[3])
      [] op = "not" ->
            IF e.islist THEN BoolV(n = 0)
            ELSE LET val == evalOrOperand[1]
                 IN  IF IsNone(val) THEN Null ELSE PyNot(val)
      [] op = "and" ->
            IF AnyRaise(evalOrOperand) THEN FirstRaise(evalOrOperand)
            ELSE IF n = 0 THEN Null
            ELSE BoolV(\A i \in 1..n : IsNone(evalOrOperand[i]) \/ Truthy(evalOrOperand[i]))
      [] op = "or" ->
            IF AnyRaise(evalOrOperand) THEN FirstRaise(evalOrOperand)
            ELSE IF n = 0 THEN Null
            ELSE BoolV(\E i \in 1..n : ~IsNone(evalOrOperand[i]) /\ Truthy(evalOrOperand[i]))
      [] OTHER -> Null

-----------------------------------------------------------------------------
(* str operations, on tuples of characters; positions are 0-based as in     *)
(* Python.                                                                  *)

Min(a, b) == IF a < b THEN a ELSE b
Max(a, b) == IF a > b THEN a ELSE b

Lower(s) == [i \in 1..Len(s) |-> IF s[i] \in DOMAIN LowerOf THEN LowerOf[s[i]] ELSE s[i]]
\* s[a:b] for 0 <= a
Slice(s, a, b) == SubSeq(s, a + 1, Min(b, Len(s)))
StartsAt(s, sub, i) == /\ i + Len(sub) <= Len(s)
                       /\ \A j \in 1..Len(sub) : s[i + j] = sub[j]
\* sub in s
Contains(s, sub) == \E i \in 0..(Len(s) - Len(sub)) : StartsAt(s, sub, i)
\* s.find(sub)
Find(s, sub) ==
    IF Contains(s, sub)
    THEN CHOOSE i \in 0..(Len(s) - Len(sub)) :
            StartsAt(s, sub, i) /\ \A j \in 0..(i - 1) : ~StartsAt(s, sub, j)
    ELSE -1
RECURSIVE LStrip(_)
LStrip(s) == IF s # <<>> /\ Head(s) = " " THEN LStrip(Tail(s)) ELSE s
RECURSIVE RStrip(_)
RStrip(s) == IF s # <<>> /\ s[Len(s)] = " " THEN RStrip(SubSeq(s, 1, Len(s) - 1)) ELSE s
Strip(s) == RStrip(LStrip(s))
\* s.replace(c, '')
Remove(s, c) == SelectSeq(s, LAMBDA x : x # c)
\* s.replace(c, d)
ReplaceChar(s, c, d) == [i \in 1..Len(s) |-> IF s[i] = c THEN d ELSE s[i]]
\* re.split(r'[-/]', s)
RECURSIVE SplitDate(_, _)
SplitDate(s, cur) ==
    IF s = <<>> THEN <<cur>>
    ELSE IF Head(s) \in {"-", "/"} THEN <<cur>> \o SplitDate(Tail(s), <<>>)
    ELSE SplitDate(Tail(s), Append(cur, Head(s)))

Digits == <<"0", "1", "2", "3", "4", "5", "6", "7", "8", "9">>
IsDigit(c) == \E i \in 1..10 : Digits[i] = c
DigitVal(c) == (CHOOSE i \in 1..10 : Digits[i] = c) - 1
AllDigits(s) == \A i \in 1..Len(s) : IsDigit(s[i])
RECURSIVE DigitsVal(_, _)
DigitsVal(s, acc) == IF s = <<>> THEN acc ELSE DigitsVal(Tail(s), 10 * acc + DigitVal(Head(s)))
RECURSIVE Pow10(_)
Pow10(k) == IF k = 0 THEN 1 ELSE 10 * Pow10(k - 1)
RECURSIVE IntToChars(_)
IntToChars(i) == IF i < 10 THEN <<Digits[i + 1]>> ELSE Append(IntToChars(i \div 10), Digits[(i % 10) + 1])
\* f"{i:02d}" for i >= 0
Fmt02d(i) == IF i < 10 THEN <<"0">> \o IntToChars(i) ELSE IntToChars(i)

\* int(s): surrounding blanks and one sign are accepted, then digits only
Unsigned(s) == IF s # <<>> /\ Head(s) \in {"-", "+"} THEN Tail(s) ELSE s
Sign(s) == IF s # <<>> /\ Head(s) = "-" THEN -1 ELSE 1
PyInt(str) ==
    LET s == Strip(str)
        u == Unsigned(s)
    IN  IF u # <<>> /\ AllDigits(u) THEN IntV(Sign(s) * DigitsVal(u, 0))
        ELSE RaiseV("ValueError")
\* float(s) on decimal notation: digits with at most one point and at least
\* one digit (the groups the patterns capture hold digits, commas and points)
PyFloat(str) ==
    LET s == Strip(str)
        u == Unsigned(s)
        points == {i \in 1..Len(u) : u[i] = "."}
        digits == Remove(u, ".")
        frac == IF points = {} THEN 0 ELSE Len(u) - (CHOOSE i \in points : TRUE)
    IN  IF Cardinality(points) <= 1 /\ digits # <<>> /\ AllDigits(digits)
        THEN FloatV(Sign(s) * DigitsVal(digits, 0), Pow10(frac))
        ELSE RaiseV("ValueError")
\* int(x) of a float: truncation
PyTrunc(v) == IF v.n >= 0 THEN IntV(v.n \div v.d) ELSE IntV(-((-v.n) \div v.d))

-----------------------------------------------------------------------------
(* The compiled pattern cache and re.                                       *)

\* re.compile(pattern, re.IGNORECASE): the compiled object, or None on re.error
NoneRe == [ok |-> FALSE, src |-> "", flags |-> ""]
\* line 311: re.compile(pattern, re.IGNORECASE), NoneRe where it raises re.error
\* (faulty variant: the flag is left out)
ReCompileCaseSensitive(pattern) ==
    IF pattern \in ValidPatterns
    THEN [ok |-> TRUE, src |-> pattern, flags |-> ""]
    ELSE NoneRe
ReCompile(pattern) ==
    IF pattern \in ValidPatterns
    THEN [ok |-> TRUE, src |-> pattern, flags |-> "IGNORECASE"]
    ELSE NoneRe

\* _compiled_patterns is a set of [key, re] entries, one per key
CacheHas(cache, pattern) == \E c \in cache : c.key = pattern
CacheGet(cache, pattern) == (CHOOSE c \in cache : c.key = pattern).re
CachePut(cache, pattern, compiled) ==
    {c \in cache : c.key # pattern} \cup {[key |-> pattern, re |-> compiled]}

\* the value _get_compiled_pattern(pattern) returns
\* (faulty variant: a pattern found in the cache comes back as None)
GetCompiledPatternForgetful(cache, pattern) ==
    IF CacheHas(cache, pattern) THEN NoneRe
    ELSE ReCompile(pattern)
GetCompiledPattern(cache, pattern) ==
    IF CacheHas(cache, pattern) THEN CacheGet(cache, pattern)
    ELSE ReCompile(pattern)
\* the cache _get_compiled_pattern(pattern) leaves
CacheAfter(cache, pattern) ==
    IF CacheHas(cache, pattern) \/ ~ReCompile(pattern).ok THEN cache
    ELSE CachePut(cache, pattern, ReCompile(pattern))

SubjIndex(subject) == CHOOSE i \in 1..Len(Subjects) : Subjects[i] = subject
\* compiled.search(subject)
Search(compiled, subject) == SearchTable[compiled.src][SubjIndex(subject)]
\* compiled.findall(subject)
Findall(compiled, subject) == FindallTable[compiled.src][SubjIndex(subject)]
\* the match of `pattern` in `subject`; no match when there is no pattern or
\* it does not compile
NoMatch == [matched |-> FALSE, start |-> 0, end |-> 0, ngroups |-> 0, g1 |-> <<>>,
            g1none |-> TRUE]
MatchOf(compiled, subject) == IF compiled.ok THEN Search(compiled, subject) ELSE NoMatch
PatternMatch(cache, pattern, subject) ==
    IF pattern = "" THEN NoMatch ELSE MatchOf(GetCompiledPattern(cache, pattern), subject)
\* match.group(0)
Group0(m, subject) == Slice(subject, m.start, m.end)
\* match.group(1) if match.groups() else match.group(0)
Group1Or0(m, subject) ==
    IF m.ngroups > 0 THEN (IF m.g1none THEN Null ELSE StrV(m.g1))
    ELSE StrV(Group0(m, subject))

-----------------------------------------------------------------------------
(* Extractors and LLMParser._extract_field.                                 *)

\* an extractor spec of an ontology; "" / <<>> / Null stand for an absent key
Ext(name, type) ==
    [name |-> name, type |-> type, computed |-> FALSE, pattern |-> "",
     keywords |-> <<>>, negation_words |-> <<>>, check_negation |-> TRUE,
     formula |-> NoFormula, default |-> Null, format |-> "",
     item_type |-> "string", choices |-> <<>>]

\* characters of context around a pattern match / before a keyword that are
\* searched for negation words, and the length of a date keyword window
PatternNegationWindow == 30
KeywordNegationWindow == 15
DateKeywordWindow == 100

DATE_PATTERNS ==
    << [p |-> P_DATE1, fmt |-> "%Y-%m-%d"], [p |-> P_DATE2, fmt |-> "%m-%d-%Y"],
       [p |-> P_DATE3, fmt |-> "%m-%d-%y"], [p |-> P_DATE4, fmt |-> ""],
       [p |-> P_DATE5, fmt |-> ""] >>
DATETIME_PATTERNS == << [p |-> P_DATETIME1, fmt |-> ""], [p |-> P_DATETIME2, fmt |-> ""] >>

\* any(neg in context for neg in negation_words)
AnyNegation(context, negation_words) ==
    \E i \in 1..Len(negation_words) : Contains(context, negation_words[i])

\* the keyword loop of the boolean branch, from keyword i on
RECURSIVE KeywordLoop(_, _, _)
KeywordLoop(text_lower, extractor, i) ==
    IF i > Len(extractor.keywords) THEN False
    ELSE LET kw == extractor.keywords[i]
             kw_pos == Find(text_lower, kw)
             context == Slice(text_lower, Max(0, kw_pos - KeywordNegationWindow),
                              kw_pos + Len(kw))
         IN  IF ~Contains(text_lower, kw) THEN KeywordLoop(text_lower, extractor, i + 1)
             ELSE IF /\ extractor.check_negation
                     /\ extractor.negation_words # <<>>
                     /\ AnyNegation(context, extractor.negation_words)
                  THEN KeywordLoop(text_lower, extractor, i + 1)
             ELSE True

\* lines 219-229: the value of the boolean branch once the pattern compiled
BooleanFromMatch(match, text_lower, extractor) ==
    IF ~match.matched THEN False
    ELSE IF /\ extractor.check_negation
            /\ extractor.negation_words # <<>>
            /\ AnyNegation(Slice(text_lower, Max(0, match.start - PatternNegationWindow),
                                 Min(Len(text_lower), match.end + PatternNegationWindow)),
                           extractor.negation_words)
         THEN False
    ELSE True

\* (faulty variant: `return False` one level out, so a pattern that did not
\* compile ends the branch instead of falling through to the keywords)
ExtractBooleanNoFallback(cache, text, text_lower, extractor) ==
    IF extractor.pattern # ""
    THEN BooleanFromMatch(PatternMatch(cache, extractor.pattern, text), text_lower, extractor)
    ELSE KeywordLoop(text_lower, extractor, 1)
ExtractBoolean(cache, text, text_lower, extractor) ==
    IF extractor.pattern # "" /\ GetCompiledPattern(cache, extractor.pattern).ok
    THEN BooleanFromMatch(PatternMatch(cache, extractor.pattern, text), text_lower, extractor)
    ELSE KeywordLoop(text_lower, extractor, 1)

\* the multiplier of the money branch of _parse_numeric
MoneyMultiplier(match_text) ==
    IF Contains(match_text, <<"k">>) THEN 1000
    ELSE IF Contains(match_text, <<"m">>) THEN 1000000
    ELSE IF Contains(match_text, <<"b">>) THEN 1000000000
    ELSE 1

ParseNumeric(match, original_text, value_type) ==
    LET value_str == Remove(match.g1, ",")
        match_text == Lower(Slice(original_text, match.start, match.end))
    IN  IF match.g1none THEN RaiseV("AttributeError")
        ELSE CASE value_type = "int" -> PyInt(value_str)
               [] value_type \in {"float", "percentage"} -> PyFloat(value_str)
               [] value_type = "money" ->
                    PyMul(PyFloat(value_str), IntV(MoneyMultiplier(match_text)))
               [] OTHER -> Null

NumericFromMatch(match, text, value_type) ==
    IF match.matched /\ match.ngroups > 0 THEN ParseNumeric(match, text, value_type)
    ELSE Null
ExtractNumeric(cache, text, text_lower, extractor) ==
    NumericFromMatch(PatternMatch(cache, extractor.pattern, text_lower), text, extractor.type)

StringFromMatch(match, text_lower) ==
    IF match.matched THEN Group1Or0(match, text_lower) ELSE Null
ExtractString(cache, text_lower, extractor) ==
    StringFromMatch(PatternMatch(cache, extractor.pattern, text_lower), text_lower)

\* the datetime.strptime loops, as tabulated
StrptimeLookup(table, str) ==
    IF \E i \in 1..Len(table) : table[i].str = str
    THEN StrV(table[CHOOSE i \in 1..Len(table) : table[i].str = str].iso)
    ELSE Null

\* `value` unless it is None
NonNullOr(value, otherwise) == IF ~IsNone(value) THEN value ELSE otherwise

\* lines 446-448: the century of a two-digit year
TwoDigitYear(i) == IF i.n < 50 THEN i.n + 2000 ELSE i.n + 1900
\* lines 435-449: the three explicit formats, on the parts and their int()
FormatParts(parts, fmt, i1, i2, i3) ==
    CASE fmt = "%Y-%m-%d" ->
            IF IsRaise(i2) \/ IsRaise(i3) THEN Null
            ELSE StrV(parts[1] \o <<"-">> \o Fmt02d(i2.n) \o <<"-">> \o Fmt02d(i3.n))
      [] fmt = "%m-%d-%Y" ->
            IF IsRaise(i1) \/ IsRaise(i2) THEN Null
            ELSE StrV(parts[3] \o <<"-">> \o Fmt02d(i1.n) \o <<"-">> \o Fmt02d(i2.n))
      [] fmt = "%m-%d-%y" ->
            IF IsRaise(i1) \/ IsRaise(i2) \/ IsRaise(i3) THEN Null
            ELSE StrV(IntToChars(TwoDigitYear(i3)) \o <<"-">> \o Fmt02d(i1.n)
                      \o <<"-">> \o Fmt02d(i2.n))
ExplicitFormat(parts, fmt) ==
    IF fmt \notin {"%Y-%m-%d", "%m-%d-%Y", "%m-%d-%y"} \/ Len(parts) # 3 THEN Null
    ELSE FormatParts(parts, fmt, PyInt(parts[1]), PyInt(parts[2]), PyInt(parts[3]))
NormalizeStripped(date_str, fmt) ==
    NonNullOr(ExplicitFormat(SplitDate(date_str, <<>>), fmt),
              StrptimeLookup(StrptimeDate, date_str))
NormalizeDate(date_val, fmt) ==
    IF date_val.t # "str" THEN RaiseV("AttributeError")
    ELSE NormalizeStripped(Strip(date_val.s), fmt)

NormalizeDatetime(dt_val) ==
    IF dt_val.t # "str" THEN RaiseV("AttributeError")
    ELSE StrptimeLookup(StrptimeDatetime, ReplaceChar(Strip(dt_val.s), "T", " "))

\* the text _extract_date scans with the standard patterns
KeywordWindow(text, pos) == Slice(text, pos, pos + DateKeywordWindow)
RECURSIVE DateSearchText(_, _, _)
DateSearchText(text, keywords, i) ==
    IF i > Len(keywords) THEN text
    ELSE IF Contains(Lower(text), Lower(keywords[i]))
         THEN KeywordWindow(text, Find(Lower(text), Lower(keywords[i])))
    ELSE DateSearchText(text, keywords, i + 1)

\* one entry of a standard pattern table: what the loop returns at this
\* entry, Null when it goes on to the next
StandardAccept(normalized) ==
    IF Truthy(normalized) \/ IsRaise(normalized) THEN normalized ELSE Null
StandardNormalize(kind, fmt, match, search_text) ==
    IF ~match.matched THEN Null
    ELSE StandardAccept(IF kind = "date"
                        THEN NormalizeDate(StrV(Group0(match, search_text)), fmt)
                        ELSE NormalizeDatetime(Group1Or0(match, search_text)))
StandardEntry(cache, entry, kind, search_text) ==
    StandardNormalize(kind, entry.fmt, PatternMatch(cache, entry.p, search_text), search_text)

\* the loop over a standard pattern table, from entry i on; kind is "date"
\* or "datetime"
RECURSIVE StandardPatterns(_, _, _, _, _)
StandardPatterns(cache, table, kind, search_text, i) ==
    IF i > Len(table) THEN Null
    ELSE NonNullOr(StandardEntry(cache, table[i], kind, search_text),
                   StandardPatterns(cache, table, kind, search_text, i + 1))

DateFromMatch(match, cache, text, extractor) ==
    IF match.matched THEN NormalizeDate(Group1Or0(match, text), extractor.format)
    ELSE StandardPatterns(cache, DATE_PATTERNS, "date",
                          DateSearchText(text, extractor.keywords, 1), 1)
ExtractDate(cache, text, extractor) ==
    DateFromMatch(PatternMatch(cache, extractor.pattern, text), cache, text, extractor)

\* lines 421-424: the date found, at midnight
DateAtMidnight(date_result) ==
    IF IsRaise(date_result) THEN date_result
    ELSE IF Truthy(date_result)
         THEN StrV(date_result.s \o <<"T", "0", "0", ":", "0", "0", ":", "0", "0">>)
    ELSE Null
DatetimeFromMatch(match, cache, text, extractor) ==
    IF match.matched THEN NormalizeDatetime(Group1Or0(match, text))
    ELSE NonNullOr(StandardPatterns(cache, DATETIME_PATTERNS, "datetime", text, 1),
                   DateAtMidnight(ExtractDate(cache, text, extractor)))
ExtractDatetime(cache, text, extractor) ==
    DatetimeFromMatch(PatternMatch(cache, extractor.pattern, text), cache, text, extractor)

\* _convert_list_item
ConvertTo(item_type, v, f) ==
    CASE item_type = "int" -> IF IsRaise(f) THEN Null ELSE PyTrunc(f)
      [] item_type = "float" -> IF IsRaise(f) THEN Null ELSE f
      [] OTHER -> StrV(v)
ConvertStripped(v, item_type) == ConvertTo(item_type, v, PyFloat(v))
ConvertListItem(value, item_type) == ConvertStripped(Remove(Strip(value), ","), item_type)

\* lines 519-523: the converted matches that are not None
ConvertedMatches(matches, item_type) ==
    SelectSeq([i \in 1..Len(matches) |->
                    IF matches[i] = <<>> THEN Null
                    ELSE ConvertListItem(matches[i], item_type)],
              LAMBDA c : ~IsNone(c))
\* lines 514-523
ListFromPattern(cache, text, text_lower, extractor) ==
    IF extractor.pattern # "" /\ GetCompiledPattern(cache, extractor.pattern).ok
    THEN ConvertedMatches(Findall(GetCompiledPattern(cache, extractor.pattern),
                                  IF extractor.item_type # "string" THEN text
                                  ELSE text_lower),
                          extractor.item_type)
    ELSE <<>>
\* lines 526-531
ListFromKeywords(text_lower, keywords) ==
    [i \in 1..Len(SelectSeq(keywords, LAMBDA kw : Contains(text_lower, Lower(kw)))) |->
        StrV(SelectSeq(keywords, LAMBDA kw : Contains(text_lower, Lower(kw)))[i])]
NonEmptyOr(results, otherwise) == IF results # <<>> THEN results ELSE otherwise
ListOrNone(results) == IF results # <<>> THEN ListV(results) ELSE Null
ExtractList(cache, text, text_lower, extractor) ==
    ListOrNone(NonEmptyOr(ListFromPattern(cache, text, text_lower, extractor),
                          ListFromKeywords(text_lower, extractor.keywords)))

\* _extract_enum; a choice is [value |-> chars, keywords |-> <<chars, ...>>]
RECURSIVE ExtractEnum(_, _, _)
ExtractEnum(text_lower, extractor, i) ==
    IF i > Len(extractor.choices) THEN extractor.default
    ELSE IF \E j \in 1..Len(extractor.choices[i].keywords) :
                Contains(text_lower, Lower(extractor.choices[i].keywords[j]))
         THEN StrV(extractor.choices[i].value)
    ELSE ExtractEnum(text_lower, extractor, i + 1)

\* _extract_field(text, text_lower, extractor): the value, None (Null) or the
\* exception it raises
ExtractField(cache, text, text_lower, extractor) ==
    CASE extractor.type = "boolean" -> ExtractBoolean(cache, text, text_lower, extractor)
      [] extractor.type \in {"int", "float", "money", "percentage"} ->
            ExtractNumeric(cache, text, text_lower, extractor)
      [] extractor.type = "string" -> ExtractString(cache, text_lower, extractor)
      [] extractor.type = "date" -> ExtractDate(cache, text, extractor)
      [] extractor.type = "datetime" -> ExtractDatetime(cache, text, extractor)
      [] extractor.type = "list" -> ExtractList(cache, text, text_lower, extractor)
      [] extractor.type = "enum" -> ExtractEnum(text_lower, extractor, 1)
      [] OTHER -> Null

\* the patterns the standard-table loop hands to _get_compiled_pattern
RECURSIVE StandardRequested(_, _, _, _, _)
StandardRequested(cache, table, kind, search_text, i) ==
    IF i > Len(table) THEN {}
    ELSE IF ~IsNone(StandardPatterns(cache, <<table[i]>>, kind, search_text, 1))
         THEN {table[i].p}
    ELSE {table[i].p} \cup StandardRequested(cache, table, kind, search_text, i + 1)

\* the patterns _extract_field and _find_source_text hand to
\* _get_compiled_pattern for one extractor
CustomRequested(extractor) ==
    IF extractor.pattern # "" THEN {extractor.pattern} ELSE {}
DateRequested(cache, text, extractor) ==
    StandardRequested(cache, DATE_PATTERNS, "date",
                      DateSearchText(text, extractor.keywords, 1), 1)
DatetimeRequested(cache, text, extractor) ==
    StandardRequested(cache, DATETIME_PATTERNS, "datetime", text, 1)
    \cup (IF IsNone(StandardPatterns(cache, DATETIME_PATTERNS, "datetime", text, 1))
          THEN DateRequested(cache, text, extractor) ELSE {})
StandardTablesRequested(custom_hit, cache, text, extractor) ==
    IF custom_hit THEN {}
    ELSE IF extractor.type = "date" THEN DateRequested(cache, text, extractor)
    ELSE DatetimeRequested(cache, text, extractor)
RequestedPatterns(cache, text, extractor) ==
    CASE extractor.type \in {"boolean", "int", "float", "money", "percentage",
                             "string", "list"} -> CustomRequested(extractor)
      [] extractor.type \in {"date", "datetime"} ->
            CustomRequested(extractor)
            \cup StandardTablesRequested(PatternMatch(cache, extractor.pattern, text).matched,
                                         cache, text, extractor)
      [] OTHER -> {}

RECURSIVE CacheAfterAll(_, _)
CacheAfterAll(cache, patterns) ==
    IF patterns = {} THEN cache
    ELSE LET q == CHOOSE q \in patterns : TRUE
         IN  CacheAfterAll(CacheAfter(cache, q), patterns \ {q})

-----------------------------------------------------------------------------
(* ExtractionResult and LLMParser._extract_field_with_confidence.  A        *)
(* confidence is written in hundredths: 95 stands for 0.95.                 *)

ExtractionResult(value, confidence, source, extractor_type) ==
    [t |-> "result", value |-> value, confidence |-> confidence, source |-> source,
     extractor_type |-> extractor_type]
\* isinstance(v, ExtractionResult)
IsResult(v) == v.t = "result"

\* str(value), as _find_source_text falls back on it
RECURSIVE FractionDigits(_, _, _)
FractionDigits(r, d, k) ==
    IF r = 0 \/ k = 0 THEN <<>>
    ELSE <<Digits[((r * 10) \div d) + 1]>> \o FractionDigits((r * 10) % d, d, k - 1)
RECURSIVE PyStr(_)
PyStr(v) ==
    CASE v.t = "null" -> <<"N", "o", "n", "e">>
      [] v.t = "bool" -> IF v.n = 1 THEN S_True ELSE S_False
      [] v.t = "int" -> (IF v.n < 0 THEN <<"-">> ELSE <<>>) \o IntToChars(Abs(v.n))
      [] v.t = "float" ->
            (IF v.n < 0 THEN <<"-">> ELSE <<>>) \o IntToChars(Abs(v.n) \div v.d) \o <<".">>
            \o (IF Abs(v.n) % v.d = 0 THEN <<"0">>
                ELSE FractionDigits(Abs(v.n) % v.d, v.d, 17))
      [] v.t = "str" -> v.s
      [] OTHER -> <<"[">> \o
                  (IF v.l = <<>> THEN <<>>
                   ELSE LET item(i) == IF v.l[i].t = "str" THEN <<"'">> \o v.l[i].s \o <<"'">>
                                       ELSE PyStr(v.l[i])
                            rest[i \in 1..Len(v.l)] ==
                                IF i = Len(v.l) THEN item(i)
                                ELSE item(i) \o <<",", " ">> \o rest[i + 1]
                        IN  rest[1])
                  \o <<"]">>

\* sum(1 for kw in keywords if kw.lower() in text_lower)
KeywordMatches(text_lower, keywords) ==
    Cardinality({i \in 1..Len(keywords) : Contains(text_lower, Lower(keywords[i]))})

\* re.match(r'\d{4}-\d{2}-\d{2}', value)
LooksIso(s) ==
    /\ Len(s) >= 10
    /\ \A i \in {1, 2, 3, 4, 6, 7, 9, 10} : IsDigit(s[i])
    /\ s[5] = "-" /\ s[8] = "-"

\* `value in choices`: the enum values are the keys of `choices`
InChoices(value, choices) ==
    value.t = "str" /\ \E i \in 1..Len(choices) : choices[i].value = value.s

\* _calculate_confidence, lines 116-174
CalculateConfidence(text_lower, extractor, value) ==
    IF extractor.pattern # "" THEN 95
    ELSE IF extractor.type = "enum"
         THEN (IF InChoices(value, extractor.choices) THEN 90 ELSE 70)
    ELSE IF extractor.type = "boolean"
         THEN (IF KeywordMatches(text_lower, extractor.keywords) >= 3 THEN 95
               ELSE IF KeywordMatches(text_lower, extractor.keywords) >= 2 THEN 85
               ELSE IF KeywordMatches(text_lower, extractor.keywords) = 1 THEN 75
               ELSE IF Truthy(value) THEN 50 ELSE 60)
    ELSE IF extractor.type = "list" /\ value.t = "list"
         THEN (IF Len(value.l) >= 3 THEN 90 ELSE IF Len(value.l) >= 1 THEN 80 ELSE 50)
    ELSE IF extractor.type \in {"date", "datetime"}
         THEN (IF value.t = "str" /\ LooksIso(value.s) THEN 90 ELSE 75)
    ELSE IF extractor.type \in {"int", "float", "money", "percentage"} THEN 90
    ELSE 70

\* the first keyword of the list that occurs in the text, <<>> when none does
RECURSIVE FirstKeyword(_, _, _)
FirstKeyword(text_lower, keywords, i) ==
    IF i > Len(keywords) THEN <<>>
    ELSE IF Contains(text_lower, Lower(keywords[i])) THEN keywords[i]
    ELSE FirstKeyword(text_lower, keywords, i + 1)

\* lines 193-203 of _find_source_text: the keyword of the chosen enum value
RECURSIVE ChoiceKeyword(_, _, _, _)
ChoiceKeyword(text_lower, choices, value, i) ==
    IF i > Len(choices) THEN <<>>
    ELSE IF value.t = "str" /\ choices[i].value = value.s
            /\ FirstKeyword(text_lower, choices[i].keywords, 1) # <<>>
         THEN FirstKeyword(text_lower, choices[i].keywords, 1)
    ELSE ChoiceKeyword(text_lower, choices, value, i + 1)

\* _find_source_text, lines 176-205 (no keyword of the model is empty)
SourceFromMatch(match, text, text_lower, extractor, value) ==
    IF match.matched THEN Group0(match, text)
    ELSE IF FirstKeyword(text_lower, extractor.keywords, 1) # <<>>
         THEN FirstKeyword(text_lower, extractor.keywords, 1)
    ELSE IF extractor.type = "enum"
            /\ ChoiceKeyword(text_lower, extractor.choices, value, 1) # <<>>
         THEN ChoiceKeyword(text_lower, extractor.choices, value, 1)
    ELSE PyStr(value)
FindSourceText(cache, text, text_lower, extractor, value) ==
    SourceFromMatch(IF extractor.pattern # ""
                    THEN PatternMatch(cache, extractor.pattern, text) ELSE NoMatch,
                    text, text_lower, extractor, value)

\* _extract_field_with_confidence, lines 95-114: None (Null), the exception
\* _extract_field raises, or an ExtractionResult
\* (faulty variant: a result is built for None as well)
ResultFromValueOfNone(value, cache, text, text_lower, extractor) ==
    IF IsRaise(value) THEN value
    ELSE ExtractionResult(value, CalculateConfidence(text_lower, extractor, value),
                          FindSourceText(cache, text, text_lower, extractor, value),
                          extractor.type)
ResultFromValue(value, cache, text, text_lower, extractor) ==
    IF IsNone(value) \/ IsRaise(value) THEN value
    ELSE ExtractionResult(value, CalculateConfidence(text_lower, extractor, value),
                          FindSourceText(cache, text, text_lower, extractor, value),
                          extractor.type)
ExtractFieldWithConfidence(cache, text, text_lower, extractor) ==
    ResultFromValue(ExtractField(cache, text, text_lower, extractor),
                    CacheAfterAll(cache, RequestedPatterns(cache, text, extractor)),
                    text, text_lower, extractor)

-----------------------------------------------------------------------------
(* LLMParser._calculate_derived_fields                                      *)

\* len(text_lower.split())
RECURSIVE WordCount(_, _)
WordCount(s, inWord) ==
    IF s = <<>> THEN 0
    ELSE IF Head(s) = " " THEN WordCount(Tail(s), FALSE)
    ELSE (IF inWord THEN 0 ELSE 1) + WordCount(Tail(s), TRUE)

\* get_value, lines 593-598 and 851-856: the dict as get_value reads it
\* (faulty variant: get_value hands out the ExtractionResult itself)
ValuesWrapped(dict, confidence_mode) == dict
Values(dict, confidence_mode) ==
    [i \in 1..Len(dict) |->
        [name |-> dict[i].name,
         val |-> IF confidence_mode /\ IsResult(dict[i].val) THEN dict[i].val.value
                 ELSE dict[i].val]]

\* what set_computed / set_derived store for a value, lines 601-611, 859-869
\* (faulty variant: a computed fact keeps the confidence of a keyword hit)
ComputedFactGuessed(value, confidence_mode) ==
    IF confidence_mode THEN ExtractionResult(value, 75, S_computed, "computed") ELSE value
ComputedFact(value, confidence_mode) ==
    IF confidence_mode THEN ExtractionResult(value, 100, S_computed, "computed") ELSE value

\* the dict the built-in derivations leave, or the exception they raise
\* (faulty variant: the percentage is computed whenever both amounts are
\* present, without the test loan_amount > 0)
CalculateDerivedFieldsUnguarded(dict, text_lower, confidence_mode) ==
    LET fees == Get(Values(dict, confidence_mode), "fees", Null)
        loan_amount == Get(Values(dict, confidence_mode), "loan_amount", Null)
        fee_percentage == PyMul(PyDiv(fees, loan_amount), IntV(100))
        word_count == ComputedFact(IntV(WordCount(text_lower, FALSE)), confidence_mode)
    IN  IF ~IsNone(fees) /\ ~IsNone(loan_amount)
        THEN IF IsRaise(fee_percentage) THEN [raised |-> TRUE, dict |-> dict]
             ELSE [raised |-> FALSE,
                   dict |-> Put(Put(dict, "fee_percentage",
                                    ComputedFact(fee_percentage, confidence_mode)),
                                "word_count", word_count)]
        ELSE [raised |-> FALSE, dict |-> Put(dict, "word_count", word_count)]
CalculateDerivedFields(dict, text_lower, confidence_mode) ==
    LET fees == Get(Values(dict, confidence_mode), "fees", Null)
        loan_amount == Get(Values(dict, confidence_mode), "loan_amount", Null)
        positive == PyLess(IntV(0), loan_amount)
        fee_percentage == PyMul(PyDiv(fees, loan_amount), IntV(100))
        word_count == ComputedFact(IntV(WordCount(text_lower, FALSE)), confidence_mode)
    IN  IF ~IsNone(fees) /\ ~IsNone(loan_amount)
        THEN IF IsRaise(positive) THEN [raised |-> TRUE, dict |-> dict]
             ELSE IF ~Truthy(positive)
                  THEN [raised |-> FALSE, dict |-> Put(dict, "word_count", word_count)]
             ELSE IF IsRaise(fee_percentage) THEN [raised |-> TRUE, dict |-> dict]
             ELSE [raised |-> FALSE,
                   dict |-> Put(Put(dict, "fee_percentage",
                                    ComputedFact(fee_percentage, confidence_mode)),
                                "word_count", word_count)]
        ELSE [raised |-> FALSE, dict |-> Put(dict, "word_count", word_count)]

-----------------------------------------------------------------------------
(* The ontologies and requests of the model.                                *)

MaxExtractors == 2      \* extractors of an extraction ontology
MaxComputed == 2        \* computed extractors of a derivation ontology

\* extractors of the built-in mortgage ontology
E_dti == [Ext("dti", "float") EXCEPT !.pattern = P_DTI]
E_credit_score == [Ext("credit_score", "int") EXCEPT !.pattern = P_FICO]
E_fees == [Ext("fees", "money") EXCEPT !.pattern = P_FEES]
E_loan_amount == [Ext("loan_amount", "money") EXCEPT !.pattern = P_LOAN]
E_has_approval == [Ext("has_approval", "boolean") EXCEPT !.keywords = <<S_approved, S_approve>>]
\* extractors of custom ontologies
E_score == [Ext("score", "int") EXCEPT !.pattern = P_SCORE]
E_label == [Ext("label", "string") EXCEPT !.pattern = P_ON]
E_fico_text == [Ext("fico_text", "string") EXCEPT !.pattern = P_FICO]
E_issued == [Ext("issued", "date") EXCEPT !.keywords = <<S_on>>]
E_amounts == [Ext("amounts", "list") EXCEPT !.pattern = P_AMOUNTS, !.item_type = "int"]
E_word_count == [Ext("word_count", "boolean") EXCEPT !.keywords = <<S_fees>>]
\* extractors whose pattern is a malformed regex, one per type with a pattern
E_bad_boolean == [Ext("bad_boolean", "boolean") EXCEPT !.pattern = P_BAD, !.keywords = <<S_approved>>]
E_bad_int == [Ext("bad_int", "int") EXCEPT !.pattern = P_BAD]
E_bad_money == [Ext("bad_money", "money") EXCEPT !.pattern = P_BAD]
E_bad_string == [Ext("bad_string", "string") EXCEPT !.pattern = P_BAD]
E_bad_date == [Ext("bad_date", "date") EXCEPT !.pattern = P_BAD, !.format = "%Y-%m-%d"]
E_bad_datetime == [Ext("bad_datetime", "datetime") EXCEPT !.pattern = P_BAD]
E_bad_list == [Ext("bad_list", "list") EXCEPT !.pattern = P_BAD, !.keywords = <<S_fees, S_loan>>]

\* the other extractors of the built-in mortgage ontology
E_has_guarantee ==
    [Ext("has_guarantee", "boolean") EXCEPT !.keywords = <<S_guaranteed, S_100_, S_definitely>>]
E_counseling_disclosed ==
    [Ext("counseling_disclosed", "boolean") EXCEPT !.keywords = <<S_counseling>>]
E_escrow_waived ==
    [Ext("escrow_waived", "boolean") EXCEPT
        !.keywords = <<S_escrow_waived, S_waive_escrow, S_skip_escrow>>]
E_is_denial == [Ext("is_denial", "boolean") EXCEPT !.keywords = <<S_denied, S_cannot_approve>>]
E_has_specific_reason ==
    [Ext("has_specific_reason", "boolean") EXCEPT
        !.keywords = <<S_credit, S_income, S_dti, S_debt, S_score>>]

PlainExtractors ==
    {E_dti, E_credit_score, E_fees, E_loan_amount, E_has_approval, E_score, E_label,
     E_issued, E_amounts, E_word_count, E_bad_boolean, E_bad_int, E_bad_money,
     E_bad_string, E_bad_date, E_bad_datetime, E_bad_list}

\* computed extractors: a name, a formula, a default
Computed(name, formula, default) ==
    [Ext(name, "computed") EXCEPT !.formula = formula, !.default = default]

ComputedFormulas ==
    {<<"phi_count", F("count_true", <<Ref("has_approval"), Ref("has_denial")>>)>>,
     <<"phi_count", F("add", <<Ref("risk_score"), Lit(IntV(1))>>)>>,
     <<"phi_count", F("add", <<Ref("phi_count"), Lit(IntV(1))>>)>>,
     <<"phi_count", NoFormula>>,
     <<"has_phi", F("gt", <<Ref("phi_count"), Lit(IntV(0))>>)>>,
     <<"has_phi", F("gt", <<Ref("loan_amount"), Lit(IntV(0))>>)>>,
     <<"has_phi", F("frobnicate", <<Ref("dti")>>)>>,
     <<"has_phi", F("add", <<Ref("dti"), Ref("fico_text")>>)>>,
     <<"risk_score", F("sum", <<Ref("phi_count"), Ref("fees")>>)>>,
     <<"risk_score", F("if", <<F("any", <<Ref("has_phi")>>), Lit(IntV(10)), Lit(IntV(0))>>)>>,
     <<"risk_score", F("mul", <<Ref("dti"), Lit(IntV(2))>>)>>}

ComputedExtractorsCatalog ==
    {Computed(nf[1], nf[2], d) : nf \in ComputedFormulas, d \in {Null, IntV(7)}}
    \cup {Computed("fee_percentage", F("mul", <<Ref("fees"), Lit(IntV(2))>>), Null),
          Computed("word_count", F("add", <<Ref("word_count"), Lit(IntV(1))>>), Null),
          [E_has_approval EXCEPT !.name = "flagged", !.computed = TRUE,
                                 !.formula = F1("not", Ref("has_approval"))]}

\* sequences of 1..n extractors of a catalog with pairwise distinct names
DistinctSeqs(catalog, n) ==
    {q \in UNION {[1..k -> catalog] : k \in 1..n} :
        \A i, j \in 1..Len(q) : i # j => q[i].name # q[j].name}

\* constraints: an id and the machine predicate (NoFormula when absent)
Constraint(id, formula) == [id |-> id, formula |-> formula]
Constraints ==
    << Constraint("LOAN_AMOUNT_LIMIT", F("lte", <<Ref("loan_amount"), Lit(IntV(100000))>>)),
       Constraint("ATR_QM_DTI", NoFormula),
       Constraint("UNKNOWN_OP", F("implies", <<Ref("has_approval"), Ref("dti")>>)),
       Constraint("TWO_KEYS", DictF(<<Entry("lte", <<Ref("loan_amount"), Lit(IntV(1))>>),
                                      Entry("gte", <<Ref("loan_amount"), Lit(IntV(1))>>)>>)),
       Constraint("BARE_NAME", Ref("has_approval")),
       Constraint("MAX_DTI", F("lte", <<Ref("dti"), Lit(IntV(43))>>)),
       Constraint("PHI_NAME", F1("not", Ref("recipient_authorized"))),
       Constraint("EMPTY_AND", F("and", <<>>)),
       Constraint("ONE_ARG", F("gt", <<Ref("dti")>>)),
       Constraint("COUNT", F("count_true", <<Ref("has_guarantee")>>)),
       Constraint("NEEDS_APPROVAL", F("all", <<Ref("has_approval")>>)) >>

Ontology(name, extractors) ==
    [name |-> name, version |-> "1.0.0", extractors |-> extractors, constraints |-> Constraints]

\* the built-in mortgage ontology as _get_default_ontology returns it: its
\* ten extractors in order, and its five constraints, which carry a
\* formula_readable and no machine predicate
DefaultExtractors ==
    << E_dti, E_credit_score, E_fees, E_loan_amount, E_has_guarantee, E_has_approval,
       E_counseling_disclosed, E_escrow_waived, E_is_denial, E_has_specific_reason >>
DefaultConstraints ==
    << Constraint("ATR_QM_DTI", NoFormula), Constraint("HOEPA_HIGH_COST", NoFormula),
       Constraint("UDAAP_NO_GUARANTEES", NoFormula), Constraint("HPML_ESCROW", NoFormula),
       Constraint("REG_B_ADVERSE", NoFormula) >>
MortgageComplianceV1 ==
    [name |-> "mortgage-compliance-v1", version |-> "1.0.0",
     extractors |-> DefaultExtractors, constraints |-> DefaultConstraints]

\* the texts the extraction ontologies are run on
ExtractionTexts == {1, 2, 3, 4}
\* ontologies that exercise extraction
ExtractionScenarios ==
    {[ontology |-> Ontology("extraction", q), text |-> t] :
        q \in DistinctSeqs(PlainExtractors, MaxExtractors), t \in ExtractionTexts}
\* the built-in mortgage ontology, on every text
DefaultScenarios ==
    {[ontology |-> MortgageComplianceV1, text |-> t] : t \in 1..Len(Texts)}
\* ontologies that exercise derivation: computed extractors declared ahead of
\* the plain ones, on the first text
DerivationBase == <<E_dti, E_has_approval, E_fico_text, E_loan_amount>>
\* a computed field that reads word_count, declared ahead of a computed
\* extractor of that name
ShadowedDependency ==
    << Computed("risk_score", F("add", <<Ref("word_count"), Lit(IntV(1))>>), Null),
       Computed("word_count", F("mul", <<Ref("dti"), Lit(IntV(2))>>), Null) >>
DerivationScenarios ==
    {[ontology |-> Ontology("derivation", q \o DerivationBase), text |-> 1] :
        q \in DistinctSeqs(ComputedExtractorsCatalog, MaxComputed)}
    \cup {[ontology |-> Ontology("derivation", <<E_fees, E_loan_amount, c>>), text |-> 4] :
            c \in {x \in ComputedExtractorsCatalog : x.name = "fee_percentage"}}
    \cup {[ontology |-> Ontology("derivation", ShadowedDependency \o DerivationBase),
            text |-> 1]}
\* enum extractors, without and with a default
S_pending == <<"p", "e", "n", "d", "i", "n", "g">>
DecisionChoices ==
    << [value |-> S_denied, keywords |-> <<S_denied, S_cannot_approve>>],
       [value |-> S_approved, keywords |-> <<S_approved>>] >>
E_decision == [Ext("decision", "enum") EXCEPT !.choices = DecisionChoices]
E_decision_default == [E_decision EXCEPT !.default = StrV(S_pending)]
\* ontologies of one plain extractor, or of one computed extractor ahead of
\* the plain ones
SingleScenarios ==
    {[ontology |-> Ontology("extraction", <<e>>), text |-> t] :
        e \in PlainExtractors \cup {E_decision, E_decision_default}, t \in ExtractionTexts}
    \cup {[ontology |-> Ontology("derivation", <<c>> \o DerivationBase), text |-> 1] :
            c \in ComputedExtractorsCatalog}
    \cup {sc \in DerivationScenarios : sc.text # 1}
Scenarios == ExtractionScenarios \cup DerivationScenarios \cup DefaultScenarios
             \cup SingleScenarios

\* the requests a client repeats, and how many times a request is sent
RepeatedScenarios == SingleScenarios \cup DefaultScenarios
MaxRequests == 2

\* the requests: every scenario as the server sends it (raw), and the
\* small ones in confidence mode as well
ConfidenceScenarios == RepeatedScenarios
Requests ==
    {[ontology |-> sc.ontology, text |-> sc.text, include_confidence |-> FALSE] :
        sc \in Scenarios}
    \cup {[ontology |-> sc.ontology, text |-> sc.text, include_confidence |-> TRUE] :
            sc \in ConfidenceScenarios}

-----------------------------------------------------------------------------
(* Spec: one request through LLMParser.parse and the verifier.              *)

NoOntology == [name |-> "", version |-> "", extractors |-> <<>>, constraints |-> <<>>]

\* the loader and the threads of the pattern cache are idle in Spec
LoaderIdle ==
    /\ files = <<>> /\ lru = <<>> /\ resolved = <<>> /\ recency = <<>>
    /\ lastCall = <<>> /\ nloads = 0
ThreadsIdle == thr = <<>> /\ ncompiled = 0

\* line 69: the extractors parse defers to the second pass
\* (faulty variant: the `computed` key of an extractor is not looked at)
IsComputedByType(extractor) == extractor.type = "computed"
IsComputed(extractor) == extractor.type = "computed" \/ extractor.computed
ComputedExtractors(ont) == SelectSeq(ont.extractors, IsComputed)
ComputedNames(ont) == {ont.extractors[i].name : i \in {j \in 1..Len(ont.extractors) :
                                                        IsComputed(ont.extractors[j])}}
ExtractorOf(ont, name) ==
    ont.extractors[CHOOSE i \in 1..Len(ont.extractors) : ont.extractors[i].name = name]

\* the write of set_computed / set_derived: extracted[field] = the fact
\* (faulty variant: the fact is rebuilt in front of the others)
SetComputedInFront(dict, field, value) ==
    <<[name |-> field, val |-> value]>> \o SelectSeq(dict, LAMBDA kv : kv.name # field)
SetComputed(dict, field, value) == Put(dict, field, value)

\* line 617
\* (faulty variant: one pass too many)
MaxIterationsOffByOne(n) == n + 2
MaxIterations(n) == n + 1

\* line 637: deps & computed_names - set(extracted.keys())
\* (faulty variant: what is subtracted is everything `deps & computed_names` holds)
UncomputedDepsNone(deps, computed_names, keys) == (deps \cap computed_names) \ computed_names
UncomputedDeps(deps, computed_names, keys) == deps \cap (computed_names \ keys)

Init ==
    /\ \E rq \in Requests :
          /\ ontology = rq.ontology /\ textId = rq.text
          /\ given = rq.ontology
          /\ include_confidence = rq.include_confidence
    /\ call = 1
    /\ first = <<>>
    /\ call_formula = NoFormula /\ call_result = Null
    /\ confidence_scores = <<>>
    /\ pc = "extract"
    /\ extracted = <<>>
    /\ idx = 1
    /\ remaining = <<>>
    /\ iteration = 0
    /\ computed_this_pass = <<>>
    /\ violations = <<>>
    /\ evalLog = <<>>
    /\ phases = <<"extract">>
    /\ compiled_patterns = {}
    /\ LoaderIdle /\ ThreadsIdle

Text == Texts[textId]

\* lines 68-79: one round of the first-pass loop
ExtractStep ==
    /\ pc = "extract"
    /\ idx <= Len(ontology.extractors)
    /\ IF IsComputed(ontology.extractors[idx])
       THEN /\ pc' = pc
            /\ UNCHANGED <<extracted, confidence_scores, compiled_patterns>>
       ELSE \E result \in {ExtractFieldWithConfidence(compiled_patterns, Text, Lower(Text),
                                                      ontology.extractors[idx])} :
                /\ compiled_patterns' =
                    CacheAfterAll(compiled_patterns,
                                  RequestedPatterns(compiled_patterns, Text,
                                                    ontology.extractors[idx]))
                /\ pc' = IF IsRaise(result) THEN "raised" ELSE pc
                /\ IF IsNone(result) \/ IsRaise(result)
                   THEN UNCHANGED <<extracted, confidence_scores>>
                   ELSE /\ extracted' = Put(extracted, ontology.extractors[idx].name,
                                            IF include_confidence THEN result
                                            ELSE result.value)
                        /\ confidence_scores' = Put(confidence_scores,
                                                    ontology.extractors[idx].name,
                                                    result.confidence)
    /\ idx' = idx + 1
    /\ UNCHANGED <<ontology, requestVars, remaining, iteration, computed_this_pass,
                   violations, evalLog, phases, loaderVars, thr, ncompiled>>

\* lines 82 and 615-618: the built-in derivations, then the set-up of the
\* settlement loop
Derive ==
    /\ pc = "extract"
    /\ idx > Len(ontology.extractors)
    /\ LET derived == CalculateDerivedFields(extracted, Lower(Text), include_confidence)
       IN  /\ extracted' = derived.dict
           /\ pc' = IF derived.raised THEN "raised" ELSE "loop"
    /\ remaining' = [i \in 1..Len(ComputedExtractors(ontology)) |->
                        ComputedExtractors(ontology)[i].name]
    /\ iteration' = 0
    /\ phases' = phases \o <<"derive", "computed">>
    /\ UNCHANGED <<ontology, requestVars, confidence_scores, idx, computed_this_pass, violations, evalLog,
                   loaderVars, cacheVars>>

\* lines 620-622: the loop condition holds, a pass starts
BeginPass ==
    /\ pc = "loop"
    /\ remaining # <<>>
    /\ iteration < MaxIterations(Len(ComputedExtractors(ontology)))
    /\ iteration' = iteration + 1
    /\ computed_this_pass' = <<>>
    /\ idx' = 1
    /\ pc' = "pass"
    /\ UNCHANGED <<ontology, requestVars, confidence_scores, extracted, remaining, violations, evalLog, phases,
                   loaderVars, cacheVars>>

\* the computed fields the loop is done with: those popped from `remaining`
\* by an earlier pass (lines 656-657) and those appended to computed_this_pass
\* in this one (lines 632, 648, 653)
Settled(ont, names, this_pass) ==
    (ComputedNames(ont) \ {names[i] : i \in 1..Len(names)})
        \cup {this_pass[i] : i \in 1..Len(this_pass)}

\* lines 624-653: one round of `for field_name, extractor in remaining.items()`
ComputeField ==
    /\ pc = "pass"
    /\ idx <= Len(remaining)
    /\ LET field_name == remaining[idx]
           extractor == ExtractorOf(ontology, field_name)
           formula == extractor.formula
           default == extractor.default
           deps == ExtractFormulaDependencies(formula)
           uncomputed_deps == UncomputedDeps(deps, ComputedNames(ontology), KeySet(extracted))
       IN  IF ~FormulaTruthy(formula)
           THEN /\ extracted' = IF ~IsNone(default)
                                THEN SetComputed(extracted, field_name,
                                                 ComputedFact(default, include_confidence))
                                ELSE extracted
                /\ computed_this_pass' = Append(computed_this_pass, field_name)
                /\ UNCHANGED evalLog
           ELSE IF uncomputed_deps # {}
           THEN UNCHANGED <<extracted, computed_this_pass, evalLog>>
           ELSE /\ \E result \in {EvaluateFormula(formula,
                                                   Values(extracted, include_confidence))} :
                    extracted' =
                        IF ~IsNone(result) /\ ~IsRaise(result)
                        THEN SetComputed(extracted, field_name,
                                         ComputedFact(result, include_confidence))
                        ELSE IF ~IsNone(default)
                        THEN SetComputed(extracted, field_name,
                                         ComputedFact(default, include_confidence))
                        ELSE extracted
                /\ computed_this_pass' = Append(computed_this_pass, field_name)
                /\ evalLog' = Append(evalLog,
                        [field |-> field_name, iteration |-> iteration,
                         keys |-> KeySet(extracted), deps |-> deps,
                         settled |-> Settled(ontology, remaining, computed_this_pass)])
    /\ idx' = idx + 1
    /\ UNCHANGED <<pc, ontology, requestVars, confidence_scores, remaining, iteration, violations, phases,
                   loaderVars, cacheVars>>

\* lines 616 and 656-657: `remaining` is a dict of its own, copied from
\* computed_extractors (itself built by parse, line 67), so the pops leave the
\* ontology's extractors mapping as it is
\* (faulty variant: `remaining` is the ontology's own mapping, the pops take
\* the settled extractors out of the document)
OntologyAfterPopsShared(ont, settled) ==
    [ont EXCEPT !.extractors =
        SelectSeq(@, LAMBDA e : \A i \in 1..Len(settled) : settled[i] # e.name)]
OntologyAfterPops(ont, settled) == ont
\* `remaining` after the pops
RemainingAfterPops(names, settled) ==
    SelectSeq(names, LAMBDA name : \A i \in 1..Len(settled) : settled[i] # name)

\* lines 656-657: the pass ends, what it settled leaves `remaining`
EndPass ==
    /\ pc = "pass"
    /\ idx > Len(remaining)
    /\ remaining' = RemainingAfterPops(remaining, computed_this_pass)
    /\ ontology' = OntologyAfterPops(ontology, computed_this_pass)
    /\ pc' = "loop"
    /\ UNCHANGED <<requestVars, confidence_scores, extracted, idx, iteration,
                   computed_this_pass, violations, evalLog, phases, loaderVars, cacheVars>>

\* the value of the '_confidence_scores' entry: the confidence_scores dict
ScoresV(scores) == [t |-> "scores", n |-> 0, d |-> 1, s |-> <<>>, l |-> scores]

\* lines 659 and 90-93: the loop condition fails, parse returns.  A raw call
\* is the server's (server.py line 94 hands the facts to the verifier); a
\* call in confidence mode is a library call and ends with the return.
ReturnParsed ==
    /\ pc = "loop"
    /\ ~(remaining # <<>> /\ iteration < MaxIterations(Len(ComputedExtractors(ontology))))
    /\ IF include_confidence
       THEN /\ extracted' = Put(extracted, "_confidence_scores", ScoresV(confidence_scores))
            /\ pc' = "done"
            /\ phases' = phases
       ELSE /\ extracted' = extracted
            /\ pc' = "verify"
            /\ phases' = Append(phases, "constrain")
    /\ idx' = 1
    /\ UNCHANGED <<ontology, requestVars, confidence_scores, remaining, iteration,
                   computed_this_pass, violations, evalLog, loaderVars, cacheVars>>

\* the verifier's verdict on one predicate value: a violation exactly on False
IsViolation(result) == IsFalse(result)

\* the verifier, one constraint at a time in ontology order
VerifyConstraint ==
    /\ pc = "verify"
    /\ idx <= Len(ontology.constraints)
    /\ \E result \in {EvaluateFormula(ontology.constraints[idx].formula, extracted)} :
           /\ pc' = IF IsRaise(result) THEN "raised" ELSE pc
           /\ violations' = IF IsViolation(result)
                            THEN Append(violations, ontology.constraints[idx].id)
                            ELSE violations
    /\ idx' = idx + 1
    /\ UNCHANGED <<ontology, requestVars, confidence_scores, extracted, remaining, iteration, computed_this_pass,
                   evalLog, phases, loaderVars, cacheVars>>

\* server.py lines 96-112: the response is built from the result
Respond ==
    /\ pc = "verify"
    /\ idx > Len(ontology.constraints)
    /\ pc' = "done"
    /\ UNCHANGED <<ontology, requestVars, confidence_scores, extracted, idx, remaining, iteration,
                   computed_this_pass, violations, evalLog, phases, loaderVars, cacheVars>>

\* the caller parses the same text with the same ontology again (server.py
\* line 94 once more, or parse(text, ontology, include_confidence) of line 44
\* in either mode): parse starts afresh, the module-level _compiled_patterns
\* keeps what the earlier calls compiled
ParseAgain ==
    /\ pc = "done"
    /\ call < MaxRequests
    /\ [ontology |-> ontology, text |-> textId] \in RepeatedScenarios
    /\ call' = call + 1
    /\ include_confidence' \in BOOLEAN
    /\ first' = IF call = 1 THEN extracted ELSE first
    /\ pc' = "extract"
    /\ extracted' = <<>>
    /\ confidence_scores' = <<>>
    /\ idx' = 1
    /\ remaining' = <<>>
    /\ iteration' = 0
    /\ computed_this_pass' = <<>>
    /\ violations' = <<>>
    /\ evalLog' = <<>>
    /\ phases' = <<"extract">>
    /\ UNCHANGED <<ontology, textId, given, call_formula, call_result,
                   loaderVars, cacheVars>>

Next ==
    \/ ExtractStep
    \/ Derive
    \/ BeginPass
    \/ ComputeField
    \/ EndPass
    \/ ReturnParsed
    \/ VerifyConstraint
    \/ Respond
    \/ ParseAgain

Spec == Init /\ [][Next]_vars

(* ------------------------------ the loader ------------------------------- *)

MaxLoads == 12          \* load calls on one loader

\* the parser is idle in SpecLoader and SpecCache
ParserIdle ==
    /\ pc = "idle" /\ ontology = NoOntology /\ textId = 0 /\ extracted = <<>>
    /\ idx = 0 /\ remaining = <<>> /\ iteration = 0 /\ computed_this_pass = <<>>
    /\ violations = <<>> /\ evalLog = <<>> /\ phases = <<>>
    /\ include_confidence = FALSE /\ confidence_scores = <<>> /\ call = 0 /\ first = <<>>
    /\ given = NoOntology /\ call_formula = NoFormula /\ call_result = Null

\* an ontology document as far as the loader looks at it: its top-level keys,
\* its name and version, and where it comes from
RequiredFields == {"name", "version", "constraints", "extractors"}
Doc(name, origin) ==
    [keys |-> RequiredFields, name |-> name, version |-> "1.0.0", origin |-> origin]
NoDoc == [keys |-> {}, name |-> "", version |-> "", origin |-> "none"]
DefaultOntology == Doc("mortgage-compliance-v1", "builtin")
FairLendingOntology == Doc("fair-lending-v1", "builtin")
HipaaOntology == Doc("hipaa-v1", "builtin")

\* the file <dir>/<name>.json: absent, not JSON, or a document
NoFile == [exists |-> FALSE, parses |-> FALSE, doc |-> NoDoc]
Unparseable == [exists |-> TRUE, parses |-> FALSE, doc |-> NoDoc]
ValidFile(name) == [exists |-> TRUE, parses |-> TRUE, doc |-> Doc(name, "file")]
FileLacking(name, field) ==
    [exists |-> TRUE, parses |-> TRUE,
     doc |-> [Doc(name, "file") EXCEPT !.keys = @ \ {field}]]

\* the names requests ask for, in the cyclic order in which new ones appear
Names ==
    << "custom", "broken", "mortgage-compliance-v1", "fair-lending-v1", "hipaa-v1",
       "example", "tenant-1", "tenant-2", "tenant-3", "tenant-4", "tenant-5", "tenant-6" >>
NameSet == {Names[i] : i \in 1..Len(Names)}
NameIndex(name) == CHOOSE i \in 1..Len(Names) : Names[i] = name
CyclicPred(name) == Names[((NameIndex(name) + Len(Names) - 2) % Len(Names)) + 1]

\* contents of the ontology directory
Directory(custom, broken, mortgage, fair, hipaa, example) ==
    [name \in NameSet |->
        CASE name = "custom" -> custom
          [] name = "broken" -> broken
          [] name = "mortgage-compliance-v1" -> mortgage
          [] name = "fair-lending-v1" -> fair
          [] name = "hipaa-v1" -> hipaa
          [] name = "example" -> example
          [] OTHER -> NoFile]
Directories ==
    { Directory(NoFile, NoFile, NoFile, NoFile, NoFile, NoFile),
      Directory(ValidFile("custom"), FileLacking("broken", "version"), NoFile, NoFile,
                ValidFile("hipaa-v1"), NoFile),
      Directory(Unparseable, FileLacking("broken", "extractors"), NoFile,
                FileLacking("fair-lending-v1", "constraints"), NoFile, NoFile),
      Directory(ValidFile("custom"), FileLacking("broken", "name"),
                FileLacking("mortgage-compliance-v1", "constraints"), NoFile, NoFile,
                ValidFile("example")) }

\* the outcome of a call: a document returned or an exception raised
Returns(doc) == [raised |-> FALSE, doc |-> doc]
Raises == [raised |-> TRUE, doc |-> NoDoc]

\* lines 40-46
ValidateOntology(doc) ==
    IF RequiredFields \subseteq doc.keys THEN Returns(doc) ELSE Raises

\* lines 48-55: NoDoc stands for None
GetBuiltinOntology(name) ==
    CASE name = "mortgage-compliance-v1" -> DefaultOntology
      [] name = "fair-lending-v1" -> FairLendingOntology
      [] name = "hipaa-v1" -> HipaaOntology
      [] OTHER -> NoDoc

\* lines 24-27, the body of the try: NoDoc returned stands for falling out
\* of the `if`
ReadOntologyFile(file) ==
    IF ~file.exists THEN Returns(NoDoc)
    ELSE IF ~file.parses THEN Raises
    ELSE ValidateOntology(file.doc)

\* lines 21-38, the body of load
Resolve(dir, name) ==
    LET read == ReadOntologyFile(dir[name])
        builtin == GetBuiltinOntology(name)
    IN  IF ~read.raised /\ read.doc # NoDoc THEN Returns(read.doc)
        \* line 28: whatever the try raised is logged and dropped
        ELSE IF builtin # NoDoc THEN Returns(builtin)
        ELSE Returns(DefaultOntology)

\* line 18: the cache lru_cache keeps, least recently used entry first
\* (faulty variant: room for one entry fewer)
MaxsizeShort == 10 - 1
Maxsize == 10
LruHas(cache, name) == \E i \in 1..Len(cache) : cache[i].name = name
LruGet(cache, name) == cache[CHOOSE i \in 1..Len(cache) : cache[i].name = name].doc
LruTouch(cache, name) ==
    SelectSeq(cache, LAMBDA c : c.name # name)
        \o SelectSeq(cache, LAMBDA c : c.name = name)
LruInsert(cache, name, doc) ==
    IF Len(cache) >= Maxsize
    THEN Append(Tail(cache), [name |-> name, doc |-> doc])
    ELSE Append(cache, [name |-> name, doc |-> doc])

\* history: the names loaded so far, the least recently loaded first
Recent(names, name) == SelectSeq(names, LAMBDA n : n # name) \o <<name>>
\* the distinct other names loaded since `name` was last loaded, -1 if never
Distance(names, name) ==
    IF \E i \in 1..Len(names) : names[i] = name
    THEN Len(names) - (CHOOSE i \in 1..Len(names) : names[i] = name)
    ELSE -1

NoCall == [name |-> "", hit |-> FALSE, distance |-> -1, status |-> 0, ran |-> NoDoc]

\* the names the next request may ask for: the next new name, the name
\* loaded longest ago, the name loaded last
Loaded == {recency[i] : i \in 1..Len(recency)}
NewNames ==
    IF recency = <<>> THEN NameSet
    ELSE {name \in NameSet \ Loaded : CyclicPred(name) \in Loaded}
RequestNames ==
    NewNames \cup (IF recency = <<>> THEN {} ELSE {recency[1], recency[Len(recency)]})

InitLoader ==
    /\ files \in Directories
    /\ lru = <<>>
    /\ resolved = [name \in NameSet |-> 0]
    /\ recency = <<>>
    /\ lastCall = NoCall
    /\ nloads = 0
    /\ compiled_patterns = {}
    /\ ParserIdle /\ ThreadsIdle

\* server.py lines 96-120: the response to a request whose load had this
\* outcome; parse and verify run on the document load returned
Response(name, hit, outcome) ==
    [name |-> name, hit |-> hit, distance |-> Distance(recency, name),
     status |-> IF outcome.raised THEN 500 ELSE 200,
     ran |-> outcome.doc]

\* a request for an ontology whose name the cache holds
VerifyCached ==
    /\ nloads < MaxLoads
    /\ \E name \in RequestNames :
          /\ LruHas(lru, name)
          /\ lru' = LruTouch(lru, name)
          /\ lastCall' = Response(name, TRUE, Returns(LruGet(lru, name)))
          /\ recency' = Recent(recency, name)
    /\ nloads' = nloads + 1
    /\ UNCHANGED <<files, resolved, parseVars, cacheVars>>

\* a request for an ontology whose name the cache does not hold
VerifyResolved ==
    /\ nloads < MaxLoads
    /\ \E name \in RequestNames :
          /\ ~LruHas(lru, name)
          /\ LET outcome == Resolve(files, name)
             IN  /\ lru' = IF outcome.raised THEN lru
                           ELSE LruInsert(lru, name, outcome.doc)
                 /\ lastCall' = Response(name, FALSE, outcome)
          /\ resolved' = [resolved EXCEPT ![name] = @ + 1]
          /\ recency' = Recent(recency, name)
    /\ nloads' = nloads + 1
    /\ UNCHANGED <<files, parseVars, cacheVars>>

NextLoader ==
    \/ VerifyCached
    \/ VerifyResolved

SpecLoader == InitLoader /\ [][NextLoader]_vars

(* --------------------------- the pattern cache --------------------------- *)

MaxThreads == 2         \* requests in flight at once
MaxCalls == 2           \* calls of _get_compiled_pattern a request makes

Threads == 1..MaxThreads
\* the patterns the requests ask for
CalledPatterns == {P_DTI, P_FICO, P_BAD}

\* a request between two calls
Idle(calls) == [pc |-> "idle", pattern |-> "", compiled |-> NoneRe, ret |-> NoneRe,
                calls |-> calls]

InitCache ==
    /\ compiled_patterns = {}
    /\ thr = [t \in Threads |-> Idle(0)]
    /\ ncompiled = 0
    /\ ParserIdle /\ LoaderIdle

\* line 305: a request enters _get_compiled_pattern(pattern)
Call(t) ==
    /\ thr[t].pc = "idle"
    /\ thr[t].calls < MaxCalls
    /\ \E pattern \in CalledPatterns :
          thr' = [thr EXCEPT ![t].pc = "check", ![t].pattern = pattern]
    /\ UNCHANGED <<compiled_patterns, ncompiled, parseVars, loaderVars>>

\* line 307: pattern in _compiled_patterns
Check(t) ==
    /\ thr[t].pc = "check"
    /\ thr' = [thr EXCEPT ![t].pc = IF CacheHas(compiled_patterns, thr[t].pattern)
                                    THEN "read" ELSE "compile"]
    /\ UNCHANGED <<compiled_patterns, ncompiled, parseVars, loaderVars>>

\* line 308: return _compiled_patterns[pattern]; a key that is gone raises
\* KeyError
Read(t) ==
    /\ thr[t].pc = "read"
    /\ thr' = [thr EXCEPT
                ![t].pc = IF CacheHas(compiled_patterns, thr[t].pattern)
                          THEN "returned" ELSE "raised",
                ![t].ret = IF CacheHas(compiled_patterns, thr[t].pattern)
                           THEN CacheGet(compiled_patterns, thr[t].pattern)
                           ELSE NoneRe]
    /\ UNCHANGED <<compiled_patterns, ncompiled, parseVars, loaderVars>>

\* lines 311 and 314-316: re.compile(pattern, re.IGNORECASE); re.error is
\* logged and None returned
Compile(t) ==
    /\ thr[t].pc = "compile"
    /\ LET compiled == ReCompile(thr[t].pattern)
       IN  IF compiled.ok
           THEN /\ thr' = [thr EXCEPT ![t].pc = "store", ![t].compiled = compiled]
                /\ ncompiled' = ncompiled + 1
           ELSE /\ thr' = [thr EXCEPT ![t].pc = "returned", ![t].ret = NoneRe]
                /\ UNCHANGED ncompiled
    /\ UNCHANGED <<compiled_patterns, parseVars, loaderVars>>

\* lines 312-313: _compiled_patterns[pattern] = compiled; return compiled
Store(t) ==
    /\ thr[t].pc = "store"
    /\ compiled_patterns' = CachePut(compiled_patterns, thr[t].pattern, thr[t].compiled)
    /\ thr' = [thr EXCEPT ![t].pc = "returned", ![t].ret = thr[t].compiled]
    /\ UNCHANGED <<ncompiled, parseVars, loaderVars>>

\* the caller goes on with what the call returned
Resume(t) ==
    /\ thr[t].pc = "returned"
    /\ thr' = [thr EXCEPT ![t] = Idle(thr[t].calls + 1)]
    /\ UNCHANGED <<compiled_patterns, ncompiled, parseVars, loaderVars>>

NextCache ==
    \E t \in Threads :
        \/ Call(t)
        \/ Check(t)
        \/ Read(t)
        \/ Compile(t)
        \/ Store(t)
        \/ Resume(t)

SpecCache == InitCache /\ [][NextCache]_vars

(* ----------------------- the formula interpreter ------------------------- *)
(* SpecFormula: one call of _evaluate_formula, or of                        *)
(* _calculate_derived_fields, on Facts drawn from a bounded set.            *)

MaxArgs == 2            \* arguments of the operator of a formula

\* what can stand in an argument position: references to facts that are
\* true, false, numeric, a string, a list or absent, literals, a nested
\* formula and a nested formula that evaluates to null
Operands ==
    {Ref("has_approval"), Ref("is_denial"), Ref("dti"), Ref("fico_text"), Ref("amounts"),
     Ref("missing"), Lit(True), Lit(False), Lit(IntV(2)), Lit(Null),
     F("gt", <<Ref("dti"), Lit(IntV(43))>>), F("frobnicate", <<Ref("dti")>>)}
ListOperators ==
    {"count_true", "count_fields", "sum", "any", "all", "and", "or",
     "gt", "gte", "lt", "lte", "add", "mul"}
ArgLists == UNION {[1..k -> Operands] : k \in 0..MaxArgs}
Formulas == {F(op, args) : op \in ListOperators, args \in ArgLists}

\* Facts as parse leaves them in raw mode
FactsOf(pairs) == [i \in 1..Len(pairs) |-> [name |-> pairs[i][1], val |-> pairs[i][2]]]
FactsInputs ==
    {FactsOf(<<>>),
     FactsOf(<< <<"dti", FloatV(35, 1)>>, <<"has_approval", True>>, <<"is_denial", False>>,
                <<"fico_text", StrV(<<"7", "2", "0">>)>>,
                <<"amounts", ListV(<<IntV(5), IntV(200)>>)>> >>),
     FactsOf(<< <<"dti", FloatV(50, 1)>>, <<"has_approval", False>>, <<"is_denial", True>> >>),
     FactsOf(<< <<"has_approval", True>>, <<"is_denial", True>> >>)}
DerivationInputs ==
    {FactsOf(<<>>),
     FactsOf(<< <<"fees", FloatV(5000, 1)>>, <<"loan_amount", FloatV(200000, 1)>> >>),
     FactsOf(<< <<"fees", FloatV(0, 1)>>, <<"loan_amount", FloatV(300, 1)>> >>),
     FactsOf(<< <<"fees", FloatV(5000, 1)>>, <<"loan_amount", FloatV(0, 1)>> >>),
     FactsOf(<< <<"fees", FloatV(5000, 1)>>, <<"loan_amount", FloatV(-300, 1)>> >>),
     FactsOf(<< <<"fees", FloatV(5000, 1)>> >>),
     FactsOf(<< <<"loan_amount", FloatV(200000, 1)>>, <<"dti", FloatV(35, 1)>> >>),
     FactsOf(<< <<"fee_percentage", FloatV(9, 1)>>, <<"fees", FloatV(5000, 1)>> >>)}
\* the same Facts as the first pass leaves them in confidence mode
Extracted(facts) ==
    [i \in 1..Len(facts) |->
        [name |-> facts[i].name,
         val |-> ExtractionResult(facts[i].val, 95, <<>>, "extracted")]]
Calls ==
    {[pc |-> "evaluate", formula |-> f, facts |-> facts] :
        f \in Formulas, facts \in FactsInputs}
    \cup {[pc |-> "derive", formula |-> NoFormula, facts |-> facts] :
            facts \in DerivationInputs}

InitFormula ==
    /\ \E c \in Calls, mode \in BOOLEAN :
          /\ pc = c.pc /\ call_formula = c.formula
          /\ include_confidence = mode
          /\ extracted = IF mode THEN Extracted(c.facts) ELSE c.facts
          /\ first = c.facts
    /\ textId \in 1..Len(Texts)
    /\ (pc = "evaluate" => textId = 1)
    /\ call_result = Null
    /\ ontology = NoOntology /\ given = NoOntology
    /\ idx = 0 /\ remaining = <<>> /\ iteration = 0 /\ computed_this_pass = <<>>
    /\ violations = <<>> /\ evalLog = <<>> /\ phases = <<>>
    /\ confidence_scores = <<>> /\ call = 1
    /\ compiled_patterns = {}
    /\ LoaderIdle /\ ThreadsIdle

\* line 642: result = self._evaluate_formula(formula, extracted, get_value)
EvaluateCall ==
    /\ pc = "evaluate"
    /\ call_result' = EvaluateFormula(call_formula, Values(extracted, include_confidence))
    /\ pc' = "evaluated"
    /\ UNCHANGED <<ontology, extracted, idx, remaining, iteration, computed_this_pass,
                   violations, evalLog, phases, confidence_scores, textId,
                   include_confidence, call, first, given, call_formula,
                   loaderVars, cacheVars>>

\* line 82: extracted = self._calculate_derived_fields(extracted, text_lower,
\* include_confidence)
DeriveCall ==
    /\ pc = "derive"
    /\ LET derived == CalculateDerivedFields(extracted, Lower(Text), include_confidence)
       IN  /\ extracted' = derived.dict
           /\ pc' = IF derived.raised THEN "raised" ELSE "derived"
    /\ UNCHANGED <<ontology, idx, remaining, iteration, computed_this_pass,
                   violations, evalLog, phases, confidence_scores, textId,
                   include_confidence, call, first, given, call_formula, call_result,
                   loaderVars, cacheVars>>

NextFormula == EvaluateCall \/ DeriveCall

SpecFormula == InitFormula /\ [][NextFormula]_vars

(* --------------------------- the computed pass --------------------------- *)

\* an evaluation of a formula that names a computed field and a field that
\* no extractor has produced
EvaluatedWithAbsentPlainDep(r) ==
    /\ r.deps \cap ComputedNames(ontology) # {}
    /\ ~(r.deps \subseteq r.keys)

\* C1 (as stated): a computed field's formula is evaluated only in a pass
\* where every name it references is already a key of Facts.
C1_AllDepsInFacts ==
    \A i \in 1..Len(evalLog) : evalLog[i].deps \subseteq evalLog[i].keys

\* C1 (amended): a computed field's formula is evaluated only in a pass where
\* every COMPUTED name it references is already a key of Facts; a referenced
\* name that is not a computed extractor may be missing and reads as its
\* default.
C1_ComputedDepsInFacts ==
    \A i \in 1..Len(evalLog) :
        (evalLog[i].deps \cap ComputedNames(ontology)) \subseteq evalLog[i].keys

C1_Witness ==
    /\ pc = "done"
    /\ \E i \in 1..Len(evalLog) :
          /\ evalLog[i].iteration >= 2
          /\ EvaluatedWithAbsentPlainDep(evalLog[i])

\* parse has returned its Facts map
Returned == pc \in {"verify", "done"}

\* C2: when the loop ends with computed fields unsettled, each one with a
\* non-null default has that default in Facts and each one without is absent.
C2_UnsettledGetDefault ==
    Returned =>
        \A i \in 1..Len(remaining) :
            LET extractor == ExtractorOf(ontology, remaining[i])
            IN  IF IsNone(extractor.default)
                THEN ~Has(extracted, extractor.name)
                ELSE /\ Has(extracted, extractor.name)
                     /\ Get(extracted, extractor.name, Null) = extractor.default

\* the settlement loop is running
InLoop == pc \in {"loop", "pass"}
\* a bound on the steps the settlement loop has left: the passes not yet
\* started, each of at most N + 2 steps, and the rest of the current pass
Rank ==
    LET N == Len(ComputedExtractors(ontology))
    IN  IF ~InLoop THEN 0
        ELSE (N + 1 - iteration) * (N + 3) + 1
             + (IF pc = "pass" THEN Len(remaining) + 2 - idx ELSE 0)

\* C3: with N computed extractors the settlement loop makes at most N + 1
\* passes and then parse returns its Facts map: the pass counter never
\* exceeds N + 1, the loop can always take its next step, and every step of
\* the loop lowers a natural-number bound on the steps left and stays in the
\* loop or returns.
C3_BoundedPasses ==
    /\ [](/\ iteration <= Len(ComputedExtractors(ontology)) + 1
          /\ InLoop => (Rank \in Nat /\ ENABLED Next))
    /\ [][InLoop => (Rank' < Rank /\ (InLoop' \/ Returned'))]_vars

C3_Witness ==
    /\ Returned
    /\ remaining # <<>>
    /\ iteration = Len(ComputedExtractors(ontology)) + 1

(* ------------------------------ key order -------------------------------- *)

PhaseOrder == <<"extract", "derive", "computed", "constrain">>
PhasesInOrder ==
    /\ Len(phases) <= Len(PhaseOrder)
    /\ \A i \in 1..Len(phases) : phases[i] = PhaseOrder[i]

BuiltinDerived == {"fee_percentage", "word_count"}
PlainNames(ont) ==
    {ont.extractors[i].name : i \in {j \in 1..Len(ont.extractors) :
                                        ~IsComputed(ont.extractors[j])}}
OntIndex(ont, name) == CHOOSE i \in 1..Len(ont.extractors) : ont.extractors[i].name = name
\* the groups a key belongs to: 1 extracted, 2 built-in derived, 3 computed
Groups(ont, name) ==
    (IF name \in PlainNames(ont) THEN {1} ELSE {})
    \cup (IF name \in BuiltinDerived THEN {2} ELSE {})
    \cup (IF name \in ComputedNames(ont) THEN {3} ELSE {})
KeysInGroupOrder ==
    \A i, j \in 1..Len(extracted) :
        i < j =>
            LET ki == extracted[i].name
                kj == extracted[j].name
            IN  /\ \A gi \in Groups(ontology, ki), gj \in Groups(ontology, kj) : gi <= gj
                /\ (1 \in Groups(ontology, ki) /\ 1 \in Groups(ontology, kj))
                        => OntIndex(ontology, ki) < OntIndex(ontology, kj)
NoBuiltinName(ont) ==
    \A i \in 1..Len(ont.extractors) : ont.extractors[i].name \notin BuiltinDerived

\* C4 (as stated): the phases run in the order extract, built-in derive,
\* computed derive, constrain, and no key of a later group of Facts precedes
\* a key of an earlier group (extracted in ontology order, built-in derived,
\* computed).
C4_GroupOrder == PhasesInOrder /\ KeysInGroupOrder

\* C4 (amended): the phases run in that order, and the keys of Facts are in
\* group order provided no ontology extractor is named fee_percentage or
\* word_count; a fact of such a name keeps the position of its first writer.
C4_GroupOrderUnlessShadowed ==
    /\ PhasesInOrder
    /\ NoBuiltinName(ontology) => KeysInGroupOrder

C4_Witness ==
    /\ pc = "done"
    /\ phases = PhaseOrder
    /\ NoBuiltinName(ontology)
    /\ \A g \in 1..3 : \E i \in 1..Len(extracted) : g \in Groups(ontology, extracted[i].name)
    /\ \E i \in 1..Len(evalLog) : evalLog[i].iteration = 2

(* ------------------------------ constraints ------------------------------ *)

KnownOperators ==
    {"count_true", "count_fields", "sum", "any", "all", "gt", ">", "gte", ">=", "lt", "<",
     "lte", "<=", "add", "+", "mul", "*", "if", "not", "and", "or"}
ConstraintOf(ont, id) ==
    ont.constraints[CHOOSE i \in 1..Len(ont.constraints) : ont.constraints[i].id = id]
\* the field names a formula reads directly as operands of its operator
DirectRefs(formula) ==
    {formula.entries[1].args[i].s :
        i \in {j \in 1..Len(formula.entries[1].args) : formula.entries[1].args[j].k = "str"}}
Comparisons == {"gt", ">", "gte", ">=", "lt", "<", "lte", "<="}

\* C5: a constraint is in `violations` only when its predicate evaluates to
\* exactly False: a predicate that is missing, is not a single-key object,
\* uses an unknown operator, or reduces to null (a comparison with a missing
\* operand or fact) or to a number never adds an entry.
C5_OnlyFalseViolates ==
    \A i \in 1..Len(violations) :
        LET formula == ConstraintOf(ontology, violations[i]).formula
        IN  /\ formula.k = "dict"
            /\ Len(formula.entries) = 1
            /\ formula.entries[1].op \in KnownOperators
            /\ formula.entries[1].op \in Comparisons =>
                    /\ Len(formula.entries[1].args) = 2
                    /\ DirectRefs(formula) \subseteq KeySet(extracted)
            /\ EvaluateFormula(formula, extracted) = False

C5_Witness ==
    /\ pc = "done"
    /\ violations = <<"LOAN_AMOUNT_LIMIT", "NEEDS_APPROVAL">>
    /\ ~Has(extracted, "dti")

(* ------------------------------ extraction ------------------------------- *)

\* C6: a numeric extractor whose pattern matches a text its conversion
\* rejects leaves its field absent and parse goes on: no exception leaves
\* the extraction pass.
C6_ExtractionNeverRaises == ~(pc = "raised" /\ phases = <<"extract">>)

IsMalformed(extractor) == extractor.pattern # "" /\ extractor.pattern \notin ValidPatterns
\* the extractors of the first pass that have run
Processed ==
    {ontology.extractors[i] :
        i \in {j \in 1..Len(ontology.extractors) :
                  /\ (phases = <<"extract">> => j < idx)
                  /\ ~IsComputed(ontology.extractors[j])}}
FactOf(extractor) == Get(Values(extracted, include_confidence), extractor.name, Null)
SkippedTypes == {"int", "float", "money", "percentage", "string"}

\* C7 (as stated): an extractor whose pattern is a malformed regex is skipped
\* and its field is absent from Facts.
C7_MalformedIsAbsent ==
    \A extractor \in Processed :
        IsMalformed(extractor) => ~Has(extracted, extractor.name)

\* C7 (amended): a numeric or string extractor whose pattern is a malformed
\* regex is skipped and its field is absent; a boolean, date, datetime or
\* list extractor with a malformed pattern yields what the same extractor
\* yields with no pattern at all (keywords, the standard date tables).
C7_MalformedIsIgnored ==
    \A extractor \in Processed :
        IsMalformed(extractor) =>
            IF extractor.type \in SkippedTypes
            THEN ~Has(extracted, extractor.name)
            ELSE FactOf(extractor) =
                    ExtractField({}, Text, Lower(Text), [extractor EXCEPT !.pattern = ""])

C7_Witness ==
    /\ pc = "done"
    /\ \E extractor \in Processed :
          /\ IsMalformed(extractor) /\ extractor.type = "boolean"
          /\ FactOf(extractor) = True
    /\ \E extractor \in Processed :
          /\ IsMalformed(extractor) /\ extractor.type \in SkippedTypes
          /\ ~Has(extracted, extractor.name)

(* ------------------------------- loading --------------------------------- *)

\* the file of the name lacks one of the required keys
LacksRequiredKey(file) ==
    file.exists /\ file.parses /\ ~(RequiredFields \subseteq file.doc.keys)

\* C8: when the file of the requested name exists but lacks a required key,
\* load raises to its caller, the request ends in a boundary error, and
\* nothing runs on a substitute ontology.
C8_BrokenFileIsBoundaryError ==
    (lastCall # NoCall /\ LacksRequiredKey(files[lastCall.name])) =>
        /\ lastCall.status # 200
        /\ lastCall.ran = NoDoc

\* C9 (as stated): each distinct name is resolved at most once, however many
\* other names are loaded in between.
C9_ResolvedAtMostOnce == \A name \in NameSet : resolved[name] <= 1

\* C9 (amended): a load of a name that was loaded before returns the cached
\* document without resolving it again exactly when fewer than 10 other
\* distinct names were loaded since its last load; after 10 or more the name
\* is resolved again.
C9_CachedWhileRecent ==
    /\ []((lastCall # NoCall /\ lastCall.distance >= 0) =>
            /\ lastCall.hit <=> lastCall.distance < 10
            /\ lastCall.ran = Resolve(files, lastCall.name).doc)
    /\ [][\A name \in NameSet :
            resolved'[name] # resolved[name] =>
                /\ resolved'[name] = resolved[name] + 1
                /\ lastCall'.name = name
                /\ Distance(recency, name) \notin 0..9]_vars

C9_Witness ==
    /\ ~lastCall.hit
    /\ lastCall.distance = 10
    /\ resolved[lastCall.name] = 2
    /\ \E name \in NameSet : resolved[name] = 1 /\ name # lastCall.name

(* ---------------------------- cached patterns ---------------------------- *)

CachedKeys(cache) == {c.key : c \in cache}
\* a regex compiled from `pattern` with the case-insensitive flag
IsRegexFor(compiled, pattern) ==
    compiled.ok /\ compiled.src = pattern /\ compiled.flags = "IGNORECASE"

\* C10: under any interleaving of requests calling _get_compiled_pattern the
\* cache only grows, every cached entry for key p is a regex compiled from p
\* with the case-insensitive flag, every call with a valid pattern p returns
\* a regex for p, and a pattern that fails to compile is never inserted.
C10_CacheOnlyGrows ==
    /\ [][CachedKeys(compiled_patterns) \subseteq CachedKeys(compiled_patterns')]_vars
    /\ [](/\ \A c \in compiled_patterns :
                /\ IsRegexFor(c.re, c.key)
                /\ c.key \in ValidPatterns
                /\ \A d \in compiled_patterns : d.key = c.key => d = c
          /\ \A t \in Threads :
                /\ thr[t].pc # "raised"
                /\ thr[t].pc = "returned" =>
                      IF thr[t].pattern \in ValidPatterns
                      THEN IsRegexFor(thr[t].ret, thr[t].pattern)
                      ELSE thr[t].ret = NoneRe)

\* two requests raced past the membership test and both compiled and stored
\* the same pattern; another call found a malformed pattern
C10_Witness ==
    /\ ncompiled > Cardinality(compiled_patterns)
    /\ compiled_patterns # {}
    /\ \E t \in Threads :
          /\ thr[t].pc = "returned" /\ thr[t].pattern = P_BAD
          /\ thr[t].calls > 0
    /\ \E t \in Threads :
          /\ thr[t].pc = "returned" /\ thr[t].pattern \in ValidPatterns
          /\ thr[t].calls > 0

\* C11: load(name) returns the document of <dir>/<name>.json when that file
\* is present (also for a built-in name), otherwise the built-in ontology of
\* a built-in name, otherwise the default ontology mortgage-compliance-v1.
C11_ResolutionOrder ==
    lastCall # NoCall =>
        LET file == files[lastCall.name]
            builtin == GetBuiltinOntology(lastCall.name)
        IN  /\ lastCall.status = 200
            /\ lastCall.ran = IF file.exists THEN file.doc
                              ELSE IF builtin # NoDoc THEN builtin
                              ELSE DefaultOntology

(* ------------------------- the mortgage ontology ------------------------- *)

\* the request runs on the built-in mortgage ontology and this text
OnDefault(t) == ontology = MortgageComplianceV1 /\ textId = t
\* the value of a fact, None when the field is absent
Fact(name) == Get(Values(extracted, include_confidence), name, Null)

\* C12: on the built-in mortgage ontology the text "Approval guaranteed"
\* yields has_guarantee = true and has_approval = true, and the request ends
\* not verified with exactly the violation UDAAP_NO_GUARANTEES.
C12_ApprovalGuaranteedViolates ==
    (pc = "done" /\ ~include_confidence /\ OnDefault(5)) =>
        /\ Fact("has_guarantee") = True
        /\ Fact("has_approval") = True
        /\ violations = <<"UDAAP_NO_GUARANTEES">>

\* C13: on the built-in mortgage ontology "not approved" yields
\* has_approval = false and "approved, no issues" yields has_approval = true.
C13_NegatedKeywordIsFalse ==
    Returned =>
        /\ OnDefault(6) => Fact("has_approval") = False
        /\ OnDefault(7) => Fact("has_approval") = True

\* C14: a money extractor yields the captured number times the multiplier of
\* the suffix attached to the amount, and the number itself when the amount
\* has no suffix: "$5k fees" and "$5K fees" give 5000, "$200k loan" gives
\* 200000 and "$300 mortgage" gives 300.
C14_MoneySuffixMultiplier ==
    Returned =>
        /\ OnDefault(4) => /\ Fact("fees") = FloatV(5000, 1)
                           /\ Fact("loan_amount") = FloatV(200000, 1)
        /\ OnDefault(8) => /\ Fact("fees") = FloatV(5000, 1)
                           /\ Fact("loan_amount") = FloatV(300, 1)

(* --------------------------- confidence mode ----------------------------- *)

\* the facts of a call in confidence mode: the entries of Facts other than
\* the '_confidence_scores' metadata
FactEntries == {i \in 1..Len(extracted) : extracted[i].name # "_confidence_scores"}
\* the names the second pass owns: extractors of type computed or carrying a
\* truthy `computed` key
DeferredNames ==
    {ontology.extractors[j].name :
        j \in {k \in 1..Len(ontology.extractors) :
                  \/ ontology.extractors[k].type = "computed"
                  \/ ontology.extractors[k].computed}}

\* C15: in confidence mode every fact is an ExtractionResult whose confidence
\* lies in [0, 1], at every step of parse; and in what parse returns the
\* built-in derived facts (fee_percentage, word_count) and the computed facts
\* have confidence 1.0, source "computed" and extractor_type "computed".
C15_ConfidenceOfFacts ==
    include_confidence =>
        \A i \in FactEntries :
            /\ extracted[i].val.t = "result"
            /\ extracted[i].val.confidence \in 0..100
            /\ (Returned /\ extracted[i].name \in {"fee_percentage", "word_count"} \cup DeferredNames)
                    => /\ extracted[i].val.confidence = 100
                       /\ extracted[i].val.source = <<"c", "o", "m", "p", "u", "t", "e", "d">>
                       /\ extracted[i].val.extractor_type = "computed"

C15_Witness ==
    /\ pc = "done" /\ include_confidence
    /\ \E i, j, k \in FactEntries :
          /\ extracted[i].name = "word_count" /\ extracted[i].val.confidence = 100
          /\ extracted[j].name \in DeferredNames /\ extracted[j].val.confidence = 100
          /\ extracted[k].name = "dti" /\ extracted[k].val.confidence = 95
          /\ extracted[k].val.source = <<"D", "T", "I", ":", " ", "3", "5">>

\* the first call of parse ran in confidence mode
FirstWithConfidence == \E i \in 1..Len(first) : first[i].name = "_confidence_scores"

\* C16: parse is deterministic: a request sent again in the same mode, with
\* the compiled-pattern cache filled by the earlier calls, returns the Facts
\* the first call returned on the empty cache, with the same keys in the same
\* order.
C16_SameFactsOnWarmCache ==
    (call > 1 /\ Returned /\ (FirstWithConfidence <=> include_confidence))
        => extracted = first

C16_Witness ==
    /\ call > 1 /\ pc = "done"
    /\ (FirstWithConfidence <=> include_confidence)
    /\ \E i \in 1..Len(ontology.extractors) :
          /\ ontology.extractors[i].pattern # ""
          /\ \E c \in compiled_patterns : c.key = ontology.extractors[i].pattern
          /\ \E j \in 1..Len(first) : first[j].name = ontology.extractors[i].name
    /\ Len(extracted) > 1

(* ------------------------------ first pass -------------------------------- *)

\* the extractors the first-pass loop has gone through
Passed == IF pc = "extract" THEN 1..(idx - 1) ELSE 1..Len(ontology.extractors)
\* what extraction yields for the extractor at position j of the ontology
Yield(j) == ExtractField({}, Text, Lower(Text), ontology.extractors[j])
\* the first pass has recorded exactly what extraction yields for extractor j
Recorded(j) ==
    IF IsNone(Yield(j)) THEN ~Has(extracted, ontology.extractors[j].name)
    ELSE FactOf(ontology.extractors[j]) = Yield(j)
OwnName(j) == ontology.extractors[j].name \notin {"fee_percentage", "word_count"}

\* C17 (as stated): the first pass attempts extraction for every extractor
\* whose type is not computed and records the fact when there is one; the
\* extractors it defers to the computed-field pass are those of type computed.
C17_DefersComputedTypeOnly ==
    pc = "extract" =>
        \A j \in Passed :
            IF ontology.extractors[j].type = "computed"
            THEN ~Has(extracted, ontology.extractors[j].name)
            ELSE Recorded(j)

\* C17 (amended): the first pass attempts extraction for every extractor that
\* is neither of type computed nor carries a truthy `computed` key, and
\* records the fact when there is one; an extractor of type computed or with
\* a truthy `computed` key is deferred to the computed-field pass whatever its
\* type, and no extraction is attempted for it.
C17_DefersComputedTypeOrKey ==
    /\ pc = "extract" =>
        \A j \in Passed :
            IF ontology.extractors[j].type = "computed" \/ ontology.extractors[j].computed
            THEN ~Has(extracted, ontology.extractors[j].name)
            ELSE Recorded(j)
    /\ (pc = "loop" /\ iteration = 0) =>
        /\ \A j \in Passed :
              (ontology.extractors[j].type = "computed" \/ ontology.extractors[j].computed)
                  <=> \E i \in 1..Len(remaining) : remaining[i] = ontology.extractors[j].name
        /\ \A j \in Passed :
              (~(ontology.extractors[j].type = "computed" \/ ontology.extractors[j].computed)
               /\ OwnName(j)) => Recorded(j)

C17_Witness ==
    /\ pc = "loop" /\ iteration = 0
    /\ \E j \in Passed :
          /\ ontology.extractors[j].type = "boolean" /\ ontology.extractors[j].computed
          /\ Yield(j) = True
          /\ ~Has(extracted, ontology.extractors[j].name)
          /\ \E i \in 1..Len(remaining) : remaining[i] = ontology.extractors[j].name
    /\ Fact("has_approval") = True

\* C18: no field of Facts holds a null value, in either mode and at every
\* step of parse: an extractor that finds nothing, an enum with no match and
\* no default, an empty list and a computed field whose formula evaluates to
\* null with no default leave their field absent.
C18_NoNullFact ==
    /\ \A i \in 1..Len(extracted) :
          /\ extracted[i].val.t # "null"
          /\ extracted[i].val.t = "result" => extracted[i].val.value.t # "null"
    /\ pc = "extract" =>
          \A j \in Passed :
              (/\ ontology.extractors[j].type \in {"enum", "list", "string", "money"}
               /\ ~ontology.extractors[j].computed
               /\ Yield(j).t = "null")
                  => ~Has(extracted, ontology.extractors[j].name)
    /\ Returned =>
          \A k \in 1..Len(evalLog) :
              LET extractor == ExtractorOf(ontology, evalLog[k].field)
              IN  (/\ extractor.default.t = "null"
                   /\ EvaluateFormula(extractor.formula,
                                      Values(extracted, include_confidence)).t = "null"
                   /\ evalLog[k].field \notin {"fee_percentage", "word_count"})
                      => ~Has(extracted, evalLog[k].field)

C18_Witness ==
    /\ pc = "done"
    /\ \E k \in 1..Len(evalLog) :
          /\ ExtractorOf(ontology, evalLog[k].field).default.t = "null"
          /\ EvaluateFormula(ExtractorOf(ontology, evalLog[k].field).formula,
                             Values(extracted, include_confidence)).t = "null"
          /\ ~Has(extracted, evalLog[k].field)
    /\ \E j \in 1..Len(ontology.extractors) :
          /\ ontology.extractors[j].type = "money" /\ Yield(j).t = "null"
          /\ ~Has(extracted, ontology.extractors[j].name)
    /\ Has(extracted, "dti")

\* C19: parse does not modify the ontology document it is given: at every
\* step of every call, and so after any parse call, the extractors mapping and
\* the constraints list of the document the loader caches and shares with
\* later requests equal what they were before the first call.
C19_OntologyUntouched ==
    /\ ontology.extractors = given.extractors
    /\ ontology.constraints = given.constraints
    /\ ontology.name = given.name /\ ontology.version = given.version

C19_Witness ==
    /\ pc = "done" /\ call > 1
    /\ remaining = <<>> /\ computed_this_pass # <<>>
    /\ \E j \in 1..Len(given.extractors) :
          /\ given.extractors[j].name = computed_this_pass[1]
          /\ ontology.extractors[j] = given.extractors[j]
    /\ first = extracted

(* ------------------------------- operators -------------------------------- *)

\* the formulas {all: [name, ...]} among the constraints of the ontology
AllOverFields ==
    {ontology.constraints[i].formula :
        i \in {k \in 1..Len(ontology.constraints) :
                  LET f == ontology.constraints[k].formula
                  IN  /\ f.k = "dict" /\ Len(f.entries) = 1
                      /\ f.entries[1].op = "all" /\ f.entries[1].islist
                      /\ \A j \in 1..Len(f.entries[1].args) : f.entries[1].args[j].k = "str"}}

\* C20: `all` ignores null arguments: its result is the logical AND over the
\* arguments that are non-null, so a referenced field that is absent from
\* Facts does not make `all` false.
C20_AllIgnoresAbsentFields ==
    Returned =>
        \A f \in AllOverFields :
            EvaluateFormula(f, Values(extracted, include_confidence)) =
                BoolV(\A j \in 1..Len(f.entries[1].args) :
                          Has(extracted, f.entries[1].args[j].s)
                              => Truthy(Fact(f.entries[1].args[j].s)))

(* -------------------------- formula operators ---------------------------- *)

\* the call of SpecFormula has returned: its operator, arguments and Facts
Evaluated == pc = "evaluated"
CallOp == call_formula.entries[1].op
CallArgs == call_formula.entries[1].args
CallFacts == Values(extracted, include_confidence)

\* C21: on every argument list of field references and nested formulas and
\* every Facts map, `and` returns what `all` returns and `or` returns what
\* `any` returns, the empty list and references to absent fields included.
C21_AndIsAllOrIsAny ==
    Evaluated =>
        /\ CallOp = "and" => call_result = EvaluateFormula(F("all", CallArgs), CallFacts)
        /\ CallOp = "or" => call_result = EvaluateFormula(F("any", CallArgs), CallFacts)

\* the arguments of the call are all number or boolean literals
LiteralArgs ==
    /\ CallArgs # <<>>
    /\ \A i \in 1..Len(CallArgs) :
          CallArgs[i].k = "lit" /\ CallArgs[i].v.t \in {"bool", "int", "float"}

\* C22: in an argument position a string is a reference to the fact of that
\* name and a number or boolean literal is its own value: over literals,
\* `any` is true when one of them is truthy, `all` when all are, count_true
\* counts the literals that are True and count_fields counts them all.
C22_LiteralsAreTheirValue ==
    (Evaluated /\ LiteralArgs) =>
        /\ CallOp = "any" =>
              call_result = BoolV(\E i \in 1..Len(CallArgs) : CallArgs[i].v.n # 0)
        /\ CallOp = "all" =>
              call_result = BoolV(\A i \in 1..Len(CallArgs) : CallArgs[i].v.n # 0)
        /\ CallOp = "count_true" =>
              call_result = IntV(Cardinality({i \in 1..Len(CallArgs) : CallArgs[i].v = True}))
        /\ CallOp = "count_fields" => call_result = IntV(Len(CallArgs))

\* the arguments of the call are all field references
ReferenceArgs == \A i \in 1..Len(CallArgs) : CallArgs[i].k = "str"
\* the value a referenced fact adds to a sum of numeric facts: its own when
\* it is an int or a float, 0 when it is absent or anything else
NumericOrZero(name) ==
    IF Has(extracted, name) /\ Get(CallFacts, name, Null).t \in {"int", "float"}
    THEN Get(CallFacts, name, Null)
    ELSE IntV(0)

\* C23: `sum` returns the sum of the numeric values of the referenced fields;
\* a reference whose fact is absent or is not a number (a boolean, a string,
\* a list) contributes 0.
C23_SumOfNumericFacts ==
    (Evaluated /\ CallOp = "sum" /\ ReferenceArgs) =>
        call_result = FoldAdd(IntV(0), [i \in 1..Len(CallArgs) |-> NumericOrZero(CallArgs[i].s)])

\* what an argument of the call resolves to: the fact a reference names
\* (null when absent), a literal itself, the value of a nested formula
Resolved(i) ==
    CASE CallArgs[i].k = "str" -> Get(CallFacts, CallArgs[i].s, Null)
      [] CallArgs[i].k = "lit" -> CallArgs[i].v
      [] OTHER -> EvaluateFormula(CallArgs[i], CallFacts)
IsNumber(v) == v.t \in {"int", "float"}
\* a < b on numbers n / d with d > 0
Below(a, b) == a.n * b.d < b.n * a.d
Comparison(op, l, r) ==
    CASE op = "gt" -> Below(r, l)
      [] op = "gte" -> ~Below(l, r)
      [] op = "lt" -> Below(l, r)
      [] op = "lte" -> ~Below(r, l)
RECURSIVE SumTo(_)
SumTo(i) ==
    IF i = 0 THEN [n |-> 0, d |-> 1]
    ELSE [n |-> SumTo(i - 1).n * Resolved(i).d + Resolved(i).n * SumTo(i - 1).d,
          d |-> SumTo(i - 1).d * Resolved(i).d]
RECURSIVE ProductTo(_)
ProductTo(i) ==
    IF i = 0 THEN [n |-> 1, d |-> 1]
    ELSE [n |-> ProductTo(i - 1).n * Resolved(i).n, d |-> ProductTo(i - 1).d * Resolved(i).d]
\* a result is the number n / d
IsTheNumber(v, q) == IsNumber(v) /\ v.n * q.d = q.n * v.d

\* C24: null propagates through comparison and arithmetic.  A two-argument
\* gt / gte / lt / lte over references and literals returns null when either
\* side resolves to null, and the comparison of the two numbers otherwise;
\* add / mul over two or more arguments (references, literals, nested
\* formulas) return null when any argument resolves to null, and the sum /
\* the product of the numbers otherwise.
C24_NullPropagates ==
    Evaluated =>
        /\ (/\ CallOp \in {"gt", "gte", "lt", "lte"} /\ Len(CallArgs) = 2
            /\ \A i \in 1..2 : CallArgs[i].k \in {"str", "lit"})
              => IF Resolved(1).t = "null" \/ Resolved(2).t = "null"
                 THEN call_result.t = "null"
                 ELSE (IsNumber(Resolved(1)) /\ IsNumber(Resolved(2)))
                          => call_result = BoolV(Comparison(CallOp, Resolved(1), Resolved(2)))
        /\ (CallOp \in {"add", "mul"} /\ Len(CallArgs) >= 2)
              => IF \E i \in 1..Len(CallArgs) : Resolved(i).t = "null"
                 THEN call_result.t = "null"
                 ELSE (\A i \in 1..Len(CallArgs) : IsNumber(Resolved(i)))
                          => IsTheNumber(call_result,
                                         IF CallOp = "add" THEN SumTo(Len(CallArgs))
                                         ELSE ProductTo(Len(CallArgs)))

C24_Witness ==
    /\ Evaluated /\ CallOp = "add" /\ Len(CallArgs) = 2
    /\ CallArgs[1].k = "str" /\ IsNumber(Resolved(1))
    /\ CallArgs[2].k = "dict" /\ Resolved(2).t = "null"
    /\ call_result.t = "null"

(* --------------------- order of the computed facts ----------------------- *)

\* the computed extractors a logged evaluation's formula names
ComputedDeps(r) == r.deps \cap ComputedNames(ontology)

\* C25: a computed field is evaluated, and its fact written, only after the
\* computed pass has written every computed field its formula references:
\* each such name is a key of Facts and its own extractor has been settled.
C25_ComputedDepsWrittenFirst ==
    \A i \in 1..Len(evalLog) :
        ComputedDeps(evalLog[i]) \subseteq (evalLog[i].keys \cap evalLog[i].settled)

(* ------------------------- built-in derivation --------------------------- *)

\* the built-in derivation step has been called and has returned or raised
Derived == pc \in {"derived", "raised"}
\* the position of a key in a Facts map, 0 when it is not a key
KeyAt(dict, name) ==
    IF \E i \in 1..Len(dict) : dict[i].name = name
    THEN CHOOSE i \in 1..Len(dict) : dict[i].name = name
    ELSE 0
\* the step was given both amounts, with a loan amount above zero
AmountsGiven ==
    /\ KeyAt(first, "fees") > 0 /\ KeyAt(first, "loan_amount") > 0
    /\ first[KeyAt(first, "loan_amount")].val.n > 0
\* the number v is (fees / loan_amount) * 100 of the Facts the step was given
IsFeePercentage(v) ==
    LET fees == first[KeyAt(first, "fees")].val
        loan_amount == first[KeyAt(first, "loan_amount")].val
    IN  /\ v.t = "float"
        /\ v.n * fees.d * loan_amount.n = v.d * fees.n * loan_amount.d * 100
\* the value stored under a key of Facts, out of its ExtractionResult in
\* confidence mode
StoredAt(dict, name) ==
    IF include_confidence THEN dict[KeyAt(dict, name)].val.value
    ELSE dict[KeyAt(dict, name)].val

\* C26: the built-in derivation step returns without raising; given fees and
\* a loan_amount above zero it leaves fee_percentage = (fees / loan_amount) *
\* 100 in Facts; given no fees, no loan_amount or a loan_amount of zero or
\* less it writes no fee_percentage: the key is absent from Facts when it was
\* absent before, and holds what it held before otherwise.
C26_FeePercentage ==
    Derived =>
        /\ pc = "derived"
        /\ IF AmountsGiven
           THEN /\ KeyAt(extracted, "fee_percentage") > 0
                /\ IsFeePercentage(StoredAt(extracted, "fee_percentage"))
           ELSE IF KeyAt(first, "fee_percentage") = 0
           THEN KeyAt(extracted, "fee_percentage") = 0
           ELSE /\ KeyAt(extracted, "fee_percentage") > 0
                /\ StoredAt(extracted, "fee_percentage")
                       = first[KeyAt(first, "fee_percentage")].val

\* fees of 5000 on a loan of 200000 gave 2.5, and a loan of 0 gave nothing
C26_Witness ==
    /\ pc = "derived"
    /\ AmountsGiven
    /\ first[KeyAt(first, "fees")].val = FloatV(5000, 1)
    /\ first[KeyAt(first, "loan_amount")].val = FloatV(200000, 1)
    /\ KeyAt(extracted, "fee_percentage") > 0
    /\ StoredAt(extracted, "fee_percentage") = FloatV(5, 2)

(* --------------------------- the two modes ------------------------------- *)

\* the facts of a map parse returned, whichever mode it ran in: the keys in
\* order without the _confidence_scores entry, each with its plain value
\* (the `value` of its ExtractionResult in confidence mode)
PlainFacts(dict) ==
    LET facts == SelectSeq(dict, LAMBDA e : e.name # "_confidence_scores")
    IN  [i \in 1..Len(facts) |->
            [name |-> facts[i].name,
             val |-> IF facts[i].val.t = "result" THEN facts[i].val.value
                     ELSE facts[i].val]]
\* the same text and ontology have been parsed once in each mode
ParsedInBothModes ==
    call > 1 /\ Returned /\ ~(FirstWithConfidence <=> include_confidence)

\* C27: raw mode and confidence mode agree on the facts: for the same text and
\* ontology both return the same field names in the same order, apart from
\* the _confidence_scores entry, and the value inside each ExtractionResult
\* is the value raw mode returns for that field.
C27_ModesAgree ==
    ParsedInBothModes => PlainFacts(extracted) = PlainFacts(first)

\* both modes returned an extracted, a built-in derived and a computed fact
C27_Witness ==
    /\ ParsedInBothModes
    /\ pc = "done"
    /\ \E i, j, k \in 1..Len(extracted) :
          /\ extracted[i].name = "dti"
          /\ extracted[j].name = "word_count"
          /\ extracted[k].name \in DeferredNames
    /\ \E i \in 1..Len(extracted) :
          extracted[i].val.t = "result" \/ first[i].val.t = "result"

====
